---- MODULE Spec2Model ----
(***************************************************************************)
(* Tool-call conversion engine of llm-toolcall-proxy: the per-model        *)
(* converters (src/converters/*.py), the streaming handler                 *)
(* (StreamingToolCallHandler, src/converters/base.py), the SSE relay       *)
(* loop (ProxyHandler._handle_streaming_response.generate, src/app.py)     *)
(* and the non-streaming transform (ToolCallConverter.convert_response).   *)
(*                                                                         *)
(* Text is a sequence of lexical tokens.  Every token stands for one fixed *)
(* piece of text (a tag, a blank, a letter, a JSON object); the regular    *)
(* expressions of the source are evaluated on these sequences with the     *)
(* matching order of Python's re module (leftmost match, lazy and greedy   *)
(* quantifiers tried in their priority order).                             *)
(***************************************************************************)
EXTENDS Integers, Sequences, FiniteSets, TLC

\* ---------------------------------------------------------------- tokens
TC  == "<tool_call>"
ETC == "</tool_call>"
AK  == "<arg_key>"
EAK == "</arg_key>"
AV  == "<arg_value>"
EAV == "</arg_value>"
TR  == "[TOOL_REQUEST]"
ETR == "[END_TOOL_REQUEST]"
FN  == "<function=f>"
EFN == "</function>"
PM  == "<parameter=k>"
EPM == "</parameter>"
IV  == "<invoke name=\"f\">"
EIV == "</invoke>"
CP  == "<parameter name=\"k\">"
\* the two halves of "<tool_call>" when a delta boundary falls inside it
TCa == "<tool_"
TCb == "call>"
TCS == "[TOOL_CALLS]"
ARGS == "[ARGS]"
TH  == "<think>"
ETH == "</think>"
WS  == " "
TXT == "x"
\* a JSON object that json.loads accepts, and a brace-delimited text it rejects
J   == "{\"name\":\"f\",\"arguments\":{\"k\":\"v\"}}"
BJ  == "{bad}"

\* JSON null, as the value of a content field (no token sequence equals it)
Null == <<"null">>

\* ------------------------------------------------------- string helpers
\* content[a-1 : b] of Python, 1-based and inclusive
Slice(s, a, b) == IF a > b THEN <<>> ELSE SubSeq(s, a, b)

\* `tok in content`
Contains(s, tok) == \E i \in 1..Len(s) : s[i] = tok

ContainsAny(s, toks) == \E i \in 1..Len(s) : s[i] \in toks

\* a + b of Python strings: the halves of a marker that meet at the seam
\* are that marker in the result
Concat(a, b) ==
  IF a # <<>> /\ b # <<>> /\ a[Len(a)] = TCa /\ b[1] = TCb
  THEN SubSeq(a, 1, Len(a) - 1) \o <<TC>> \o Tail(b)
  ELSE a \o b

\* content.find(tok, from): the first index at or after from, 0 when absent
RECURSIVE IndexFrom(_, _, _)
IndexFrom(s, tok, from) ==
  IF from > Len(s) THEN 0
  ELSE IF s[from] = tok THEN from
  ELSE IndexFrom(s, tok, from + 1)

\* the index after the run of blanks starting at i (greedy \s*)
RECURSIVE SkipWS(_, _)
SkipWS(s, i) ==
  IF i <= Len(s) /\ s[i] = WS THEN SkipWS(s, i + 1) ELSE i

\* str.strip()
RECURSIVE LStrip(_)
LStrip(s) == IF s # <<>> /\ Head(s) = WS THEN LStrip(Tail(s)) ELSE s

RECURSIVE RStrip(_)
RStrip(s) ==
  IF s # <<>> /\ s[Len(s)] = WS THEN RStrip(SubSeq(s, 1, Len(s) - 1)) ELSE s

Strip(s) == RStrip(LStrip(s))

\* re.sub(open + '.*?' + close, '', content, flags=re.DOTALL): leftmost
\* matches, each from an opener to the first closer after it
RECURSIVE RemovePairsFrom(_, _, _, _)
RemovePairsFrom(s, open, close, i) ==
  IF i > Len(s) THEN <<>>
  ELSE IF s[i] = open /\ IndexFrom(s, close, i + 1) # 0
       THEN RemovePairsFrom(s, open, close, IndexFrom(s, close, i + 1) + 1)
       ELSE <<s[i]>> \o RemovePairsFrom(s, open, close, i + 1)

RemovePairs(s, open, close) == RemovePairsFrom(s, open, close, 1)

\* re.sub(tok, '', content)
RemoveToken(s, tok) == SelectSeq(s, LAMBDA t : t # tok)

\* re.search(open + '.*?' + close, content, re.DOTALL)
HasPair(s, open, close) ==
  \E i \in 1..Len(s) : s[i] = open /\ IndexFrom(s, close, i + 1) # 0

\* ------------------------------------------------------------ converters
\* Devstral pattern
\*   \[TOOL_CALLS\](.*?)\[ARGS\](.*?)(?=\[TOOL_CALLS\]|$)
\* the index of the last token of the match that starts at the [TOOL_CALLS]
\* at p: the lazy first group runs to the first [ARGS], the lazy second one
\* to the next [TOOL_CALLS] or the end of the text; 0 when there is no match
DevstralMatchEnd(s, p) ==
  IF s[p] # TCS \/ IndexFrom(s, ARGS, p + 1) = 0 THEN 0
  ELSE LET n == IndexFrom(s, TCS, IndexFrom(s, ARGS, p + 1) + 1)
       IN  IF n = 0 THEN Len(s) ELSE n - 1

\* re.finditer of that pattern: the (command_name, json_part) groups, in order
RECURSIVE DevstralFindAll(_, _)
DevstralFindAll(s, p) ==
  IF p > Len(s) THEN <<>>
  ELSE IF DevstralMatchEnd(s, p) # 0
       THEN LET g == IndexFrom(s, ARGS, p + 1)
                e == DevstralMatchEnd(s, p)
            IN  <<[command_name |-> Slice(s, p + 1, g - 1),
                   json_part    |-> Slice(s, g + 1, e)]>> \o DevstralFindAll(s, e + 1)
       ELSE DevstralFindAll(s, p + 1)

\* re.sub of that pattern by ''
RECURSIVE DevstralRemoveFrom(_, _)
DevstralRemoveFrom(s, p) ==
  IF p > Len(s) THEN <<>>
  ELSE IF DevstralMatchEnd(s, p) # 0
       THEN DevstralRemoveFrom(s, DevstralMatchEnd(s, p) + 1)
       ELSE <<s[p]>> \o DevstralRemoveFrom(s, p + 1)

\* re.search of that pattern
DevstralHasMatch(s) == \E p \in 1..Len(s) : DevstralMatchEnd(s, p) # 0

\* tokens whose text holds one of the markers has_partial_tool_call looks for
GLMMarkers        == {TC, ETC, AK, EAK, AV, EAV, TR, ETR}
Qwen3Markers      == {TC, ETC}
Qwen3CoderMarkers == {TC, ETC, FN, EFN, PM, EPM}
ClaudeMarkers     == {IV, EIV, CP, PM, EPM}

has_partial_tool_call(conv, content) ==
  CASE conv = "glm"         -> ContainsAny(content, GLMMarkers)
    [] conv = "qwen3"       -> ContainsAny(content, Qwen3Markers)
    [] conv = "qwen3_coder" -> ContainsAny(content, Qwen3CoderMarkers)
    [] conv = "claude"      -> ContainsAny(content, ClaudeMarkers)
    [] conv = "devstral"    -> Contains(content, TCS)
    [] OTHER                -> FALSE

is_complete_tool_call(conv, content) ==
  CASE conv = "glm"         -> HasPair(content, TC, ETC) \/ HasPair(content, TR, ETR)
    [] conv = "qwen3"       -> HasPair(content, TC, ETC)
    [] conv = "qwen3_coder" -> HasPair(content, TC, ETC)
    [] conv = "claude"      -> HasPair(content, IV, EIV)
    [] conv = "devstral"    -> DevstralHasMatch(content)
    [] OTHER                -> FALSE

\* re.sub(r'<think>\s*</think>', '', content): one pass, leftmost first
RECURSIVE RemoveEmptyThinkFrom(_, _)
RemoveEmptyThinkFrom(s, i) ==
  IF i > Len(s) THEN <<>>
  ELSE IF s[i] = TH /\ SkipWS(s, i + 1) <= Len(s) /\ s[SkipWS(s, i + 1)] = ETH
       THEN RemoveEmptyThinkFrom(s, SkipWS(s, i + 1) + 1)
       ELSE <<s[i]>> \o RemoveEmptyThinkFrom(s, i + 1)

\* the empty-span removal taking every <think>...</think> span with it
_remove_empty_think_tags_Greedy(content) == RemovePairs(content, TH, ETH)

_remove_empty_think_tags(content) ==
  IF content = <<>> THEN content ELSE RemoveEmptyThinkFrom(content, 1)

\* drops every <think> that has no </think> after it
RECURSIVE RemoveOrphanedFrom(_, _)
RemoveOrphanedFrom(s, i) ==
  IF i > Len(s) THEN <<>>
  ELSE IF s[i] = TH /\ IndexFrom(s, ETH, i + 1) = 0
       THEN RemoveOrphanedFrom(s, i + 1)
       ELSE <<s[i]>> \o RemoveOrphanedFrom(s, i + 1)

_remove_orphaned_think_tags(content) == RemoveOrphanedFrom(content, 1)

ThinkPairsRemoved(flag, s) == IF flag THEN RemovePairs(s, TH, ETH) ELSE s

\* GLMClean without the final content.strip()
GLMClean_NoStrip(flag, content) ==
  _remove_orphaned_think_tags(RemoveToken(
    ThinkPairsRemoved(flag,
      RemovePairs(RemovePairs(content, TC, ETC), TR, ETR)), ETH))

GLMClean(flag, content) ==
  Strip(_remove_orphaned_think_tags(RemoveToken(
    ThinkPairsRemoved(flag,
      RemovePairs(RemovePairs(content, TC, ETC), TR, ETR)), ETH)))

Qwen3Clean(flag, content) ==
  Strip(_remove_orphaned_think_tags(
    ThinkPairsRemoved(flag, RemovePairs(content, TC, ETC))))

Qwen3CoderClean(flag, content) ==
  Strip(_remove_orphaned_think_tags(
    ThinkPairsRemoved(flag,
      RemoveToken(RemoveToken(RemovePairs(content, TC, ETC), EFN), EPM))))

ClaudeClean(content) == Strip(RemovePairs(content, IV, EIV))

DevstralClean(flag, content) ==
  Strip(ThinkPairsRemoved(flag, DevstralRemoveFrom(content, 1)))

\* flag is Config.REMOVE_THINK_TAGS
_clean_content(conv, flag, content) ==
  CASE conv = "glm"         -> GLMClean(flag, content)
    [] conv = "qwen3"       -> Qwen3Clean(flag, content)
    [] conv = "qwen3_coder" -> Qwen3CoderClean(flag, content)
    [] conv = "claude"      -> ClaudeClean(content)
    [] conv = "devstral"    -> DevstralClean(flag, content)
    [] conv = "passthrough" -> _remove_empty_think_tags(content)
    [] OTHER                -> content

\* ------------------------------------------------------------- parsing
\* tokens whose text starts with "{" / ends with "}"
BraceOpen  == {J, BJ}
BraceClose == {J, BJ}

\* tokens whose text holds no "<" (what [^<]+ may run over)
NoLT == {WS, TXT, J, BJ, TR, ETR}

\* json.loads succeeds on the text (no JSONDecodeError)
IsJSON(text) == text = <<J>>

\* payload.get("name", "") and payload.get("arguments", {}) of a decoded text
JSONName(text) == IF text = <<J>> THEN <<"f">> ELSE <<>>

\* a dict is the sequence of its items in insertion order; an item value is
\* a str (str = TRUE) or a decoded JSON value
JSONArguments(text) ==
  IF text = <<J>> THEN <<[key |-> <<"k">>, val |-> <<"v">>, str |-> TRUE]>>
  ELSE <<>>

\* d[key] = value on a dict
RECURSIVE DictSet(_, _)
DictSet(d, item) ==
  IF d = <<>> THEN <<item>>
  ELSE IF Head(d).key = item.key THEN <<item>> \o Tail(d)
  ELSE <<Head(d)>> \o DictSet(Tail(d), item)

\* the standard OpenAI tool call built by every parse_tool_calls; id stands
\* for str(hash(seed) % 1000000000), a function of the formatted seed, and
\* arguments for json.dumps(dict)
ToolCall(seed, name, args) ==
  [id |-> seed, type |-> "function",
   function |-> [name |-> name, arguments |-> [kind |-> "object", items |-> args]]]

\* r'OPEN\s*(\{.*?\})\s*CLOSE': the end of group 1 for a group starting at
\* or before e, lazily extended; 0 when the match fails
RECURSIVE BraceGroupEnd(_, _, _)
BraceGroupEnd(s, e, close) ==
  IF e > Len(s) THEN 0
  ELSE IF s[e] \in BraceClose /\ SkipWS(s, e + 1) <= Len(s)
          /\ s[SkipWS(s, e + 1)] = close
       THEN e
       ELSE BraceGroupEnd(s, e + 1, close)

BraceMatchAt(s, p, open, close) ==
  /\ s[p] = open
  /\ SkipWS(s, p + 1) <= Len(s)
  /\ s[SkipWS(s, p + 1)] \in BraceOpen
  /\ BraceGroupEnd(s, SkipWS(s, p + 1), close) # 0

\* re.findall of that pattern: the captured texts, in order
RECURSIVE BraceFindAll(_, _, _, _)
BraceFindAll(s, p, open, close) ==
  IF p > Len(s) THEN <<>>
  ELSE IF BraceMatchAt(s, p, open, close)
       THEN LET q == SkipWS(s, p + 1)
                e == BraceGroupEnd(s, q, close)
            IN  <<Slice(s, q, e)>> \o
                BraceFindAll(s, SkipWS(s, e + 1) + 1, open, close)
       ELSE BraceFindAll(s, p + 1, open, close)

\* Qwen3ToolCallConverter.parse_tool_calls: the loop over the matches from
\* index i on, calls being the tool calls appended so far
RECURSIVE Qwen3Loop(_, _, _)
Qwen3Loop(ms, i, calls) ==
  IF i > Len(ms) THEN calls
  ELSE IF IsJSON(ms[i])
       THEN Qwen3Loop(ms, i + 1,
              Append(calls, ToolCall(<<JSONName(ms[i]), i - 1, Len(calls)>>,
                                     JSONName(ms[i]), JSONArguments(ms[i]))))
       ELSE Qwen3Loop(ms, i + 1, calls)

Qwen3Parse(content) == Qwen3Loop(BraceFindAll(content, 1, TC, ETC), 1, <<>>)

\* GLM, method 1: the [TOOL_REQUEST] matches
RECURSIVE GLMRequestLoop(_, _, _)
GLMRequestLoop(ms, i, calls) ==
  IF i > Len(ms) THEN calls
  ELSE IF IsJSON(ms[i])
       THEN GLMRequestLoop(ms, i + 1,
              Append(calls, ToolCall(<<JSONName(ms[i]), i - 1>>,
                                     JSONName(ms[i]), JSONArguments(ms[i]))))
       ELSE GLMRequestLoop(ms, i + 1, calls)

\* GLM, method 2, the legacy pattern
\*   <tool_call>\s*(.*?)\s*((?:<arg_key>.*?</arg_key>\s*<arg_value>.*?</arg_value>\s*)+)\s*</tool_call>
\* LegacyPairs(s, m): the index of the </tool_call> that ends the match when
\* the repeated group starts at m, 0 when it cannot match.  The lazy key runs
\* to the first </arg_key> that lets the rest match (LegacyKey), the lazy
\* value to the first </arg_value> that does (LegacyValue); after a pair the
\* greedy + tries one more pair before the closing tag.
RECURSIVE LegacyPairs(_, _), LegacyKey(_, _), LegacyValue(_, _)
LegacyPairs(s, m) ==
  IF m > Len(s) \/ s[m] # AK THEN 0 ELSE LegacyKey(s, m + 1)

LegacyKey(s, from) ==
  LET k == IndexFrom(s, EAK, from) IN
  IF k = 0 THEN 0
  ELSE LET v == SkipWS(s, k + 1)
           r == IF v <= Len(s) /\ s[v] = AV THEN LegacyValue(s, v + 1) ELSE 0
       IN  IF r # 0 THEN r ELSE LegacyKey(s, k + 1)

LegacyValue(s, from) ==
  LET e == IndexFrom(s, EAV, from) IN
  IF e = 0 THEN 0
  ELSE LET t == SkipWS(s, e + 1)
           more == LegacyPairs(s, t)
       IN  IF more # 0 THEN more
           ELSE IF t <= Len(s) /\ s[t] = ETC THEN t
           ELSE LegacyValue(s, e + 1)

\* the end n of the lazy name group (exclusive) for a name starting at a:
\* the first n from which, after blanks, the pairs match; 0 when none
RECURSIVE LegacyNameEnd(_, _)
LegacyNameEnd(s, n) ==
  IF n > Len(s) THEN 0
  ELSE IF LegacyPairs(s, SkipWS(s, n)) # 0 THEN n
  ELSE LegacyNameEnd(s, n + 1)

\* re.findall of the legacy pattern: (function_name, args_section) pairs
RECURSIVE LegacyFindAll(_, _)
LegacyFindAll(s, p) ==
  IF p > Len(s) THEN <<>>
  ELSE IF s[p] = TC /\ LegacyNameEnd(s, SkipWS(s, p + 1)) # 0
       THEN LET a   == SkipWS(s, p + 1)
                n   == LegacyNameEnd(s, a)
                m   == SkipWS(s, n)
                end == LegacyPairs(s, m)
            IN  <<[function_name |-> Slice(s, a, n - 1),
                   args_section  |-> Slice(s, m, end - 1)]>> \o
                LegacyFindAll(s, end + 1)
       ELSE LegacyFindAll(s, p + 1)

\* arg_pattern <arg_key>\s*(.*?)\s*</arg_key>\s*<arg_value>\s*(.*?)\s*</arg_value>
\* the </arg_key> the key runs to, searching from `from`; 0 when no match
RECURSIVE ArgKeyEnd(_, _)
ArgKeyEnd(s, from) ==
  LET k == IndexFrom(s, EAK, from) IN
  IF k = 0 THEN 0
  ELSE IF SkipWS(s, k + 1) <= Len(s) /\ s[SkipWS(s, k + 1)] = AV
          /\ IndexFrom(s, EAV, SkipWS(s, k + 1) + 1) # 0
       THEN k
       ELSE ArgKeyEnd(s, k + 1)

\* the loop over re.findall(arg_pattern, args_section): arguments[key] = value
RECURSIVE ArgLoop(_, _, _)
ArgLoop(s, p, arguments) ==
  IF p > Len(s) THEN arguments
  ELSE IF s[p] = AK /\ ArgKeyEnd(s, p + 1) # 0
       THEN LET k == ArgKeyEnd(s, p + 1)
                v == SkipWS(s, k + 1)
                e == IndexFrom(s, EAV, v + 1)
            IN  ArgLoop(s, e + 1,
                  DictSet(arguments, [key |-> Strip(Slice(s, p + 1, k - 1)),
                                      val |-> Strip(Slice(s, v + 1, e - 1)),
                                      str |-> TRUE]))
       ELSE ArgLoop(s, p + 1, arguments)

RECURSIVE GLMLegacyLoop(_, _, _)
GLMLegacyLoop(ms, i, calls) ==
  IF i > Len(ms) THEN calls
  ELSE GLMLegacyLoop(ms, i + 1,
         Append(calls, ToolCall(<<ms[i].function_name, i - 1, Len(calls)>>,
                                Strip(ms[i].function_name),
                                ArgLoop(ms[i].args_section, 1, <<>>))))

GLMParse(content) ==
  GLMLegacyLoop(LegacyFindAll(content, 1), 1,
                GLMRequestLoop(BraceFindAll(content, 1, TR, ETR), 1, <<>>))

\* re.findall(r"OPEN(.*?)CLOSE", content, re.DOTALL): the texts between an
\* opener and the first closer after it
RECURSIVE BlocksFrom(_, _, _, _)
BlocksFrom(s, p, open, close) ==
  IF p > Len(s) THEN <<>>
  ELSE IF s[p] = open /\ IndexFrom(s, close, p + 1) # 0
       THEN <<Slice(s, p + 1, IndexFrom(s, close, p + 1) - 1)>> \o
            BlocksFrom(s, IndexFrom(s, close, p + 1) + 1, open, close)
       ELSE BlocksFrom(s, p + 1, open, close)

\* re.search(r"<function=([^>]+)>(.*?)</function>", block): the index of the
\* opener of the first match, 0 when there is none
RECURSIVE FunctionAt(_, _)
FunctionAt(block, p) ==
  IF p > Len(block) THEN 0
  ELSE IF block[p] = FN /\ IndexFrom(block, EFN, p + 1) # 0 THEN p
  ELSE FunctionAt(block, p + 1)

\* the name captured from the token <function=f> / <parameter=k>, stripped
FunctionName(tok) == <<"f">>
ParameterKey(tok) == <<"k">>

\* a parameter value: json.loads(value) when it decodes, else the text
ParameterItem(key, value) ==
  [key |-> key, val |-> value, str |-> ~IsJSON(value)]

RECURSIVE ParameterLoop(_, _, _)
ParameterLoop(ms, i, parameters) ==
  IF i > Len(ms) THEN parameters
  ELSE ParameterLoop(ms, i + 1,
         DictSet(parameters, ParameterItem(ParameterKey(PM), Strip(ms[i]))))

RECURSIVE Qwen3CoderLoop(_, _, _)
Qwen3CoderLoop(blocks, i, calls) ==
  IF i > Len(blocks) THEN calls
  ELSE LET f == FunctionAt(blocks[i], 1) IN
       IF f = 0 THEN Qwen3CoderLoop(blocks, i + 1, calls)
       ELSE LET inner == Slice(blocks[i], f + 1,
                               IndexFrom(blocks[i], EFN, f + 1) - 1)
            IN  Qwen3CoderLoop(blocks, i + 1,
                  Append(calls,
                    ToolCall(<<FunctionName(FN), i - 1, Len(calls)>>,
                             FunctionName(FN),
                             ParameterLoop(BlocksFrom(inner, 1, PM, EPM), 1, <<>>))))

Qwen3CoderParse(content) ==
  Qwen3CoderLoop(BlocksFrom(content, 1, TC, ETC), 1, <<>>)

\* Claude pattern
\*   <invoke name="([^"]+)">\s*<parameter name="([^"]+)">([^<]+)</parameter>\s*</invoke>
\* the index after the run of "<"-free tokens starting at i
RECURSIVE SkipNoLT(_, _)
SkipNoLT(s, i) ==
  IF i <= Len(s) /\ s[i] \in NoLT THEN SkipNoLT(s, i + 1) ELSE i

\* the index of the </invoke> ending a match that starts at p, 0 when none
InvokeEnd(s, p) ==
  LET q == SkipWS(s, p + 1)
      r == SkipNoLT(s, q + 1)
      e == SkipWS(s, r + 1)
  IN  IF /\ s[p] = IV
         /\ q <= Len(s) /\ s[q] = CP
         /\ r > q + 1
         /\ r <= Len(s) /\ s[r] = EPM
         /\ e <= Len(s) /\ s[e] = EIV
      THEN e ELSE 0

RECURSIVE ClaudeLoop(_, _, _)
ClaudeLoop(s, p, calls) ==
  IF p > Len(s) THEN calls
  ELSE IF InvokeEnd(s, p) # 0
       THEN LET q == SkipWS(s, p + 1)
                r == SkipNoLT(s, q + 1)
            IN  ClaudeLoop(s, InvokeEnd(s, p) + 1,
                  Append(calls,
                    ToolCall(<<FunctionName(IV), Len(calls)>>, FunctionName(IV),
                             <<[key |-> ParameterKey(CP),
                                val |-> Strip(Slice(s, q + 1, r - 1)),
                                str |-> TRUE]>>)))
       ELSE ClaudeLoop(s, p + 1, calls)

ClaudeParse(content) == ClaudeLoop(content, 1, <<>>)

\* the Devstral arguments with an empty dict as the fallback for a payload
\* json.loads rejects
DevstralArguments_EmptyDict(json_part) ==
  IF IsJSON(json_part)
  THEN [kind |-> "object",
        items |-> <<[key |-> <<"name">>, val |-> JSONName(json_part), str |-> TRUE],
                    [key |-> <<"arguments">>, val |-> JSONArguments(json_part),
                     str |-> FALSE]>>]
  ELSE [kind |-> "object", items |-> <<>>]

\* the Devstral arguments with the payload json.loads rejects assigned as
\* it is, without json.dumps
DevstralArguments_Raw(json_part) ==
  IF IsJSON(json_part)
  THEN [kind |-> "object",
        items |-> <<[key |-> <<"name">>, val |-> JSONName(json_part), str |-> TRUE],
                    [key |-> <<"arguments">>, val |-> JSONArguments(json_part),
                     str |-> FALSE]>>]
  ELSE [kind |-> "raw", text |-> json_part]

\* json.dumps(args) of Devstral: args is json.loads(json_part), a dict with
\* the payload's name and arguments, or the text itself when that raises
DevstralArguments(json_part) ==
  IF IsJSON(json_part)
  THEN [kind |-> "object",
        items |-> <<[key |-> <<"name">>, val |-> JSONName(json_part), str |-> TRUE],
                    [key |-> <<"arguments">>, val |-> JSONArguments(json_part),
                     str |-> FALSE]>>]
  ELSE [kind |-> "string", text |-> json_part]

\* DevstralToolCallConverter.parse_tool_calls: the loop over the matches
RECURSIVE DevstralLoop(_, _, _)
DevstralLoop(ms, i, calls) ==
  IF i > Len(ms) THEN calls
  ELSE DevstralLoop(ms, i + 1,
         Append(calls,
           [id |-> <<Strip(ms[i].command_name), Len(calls)>>, type |-> "function",
            function |-> [name |-> Strip(ms[i].command_name),
                          arguments |-> DevstralArguments(Strip(ms[i].json_part))]]))

DevstralParse(content) == DevstralLoop(DevstralFindAll(content, 1), 1, <<>>)

parse_tool_calls(conv, content) ==
  CASE conv = "glm"         -> GLMParse(content)
    [] conv = "qwen3"       -> Qwen3Parse(content)
    [] conv = "qwen3_coder" -> Qwen3CoderParse(content)
    [] conv = "claude"      -> ClaudeParse(content)
    [] conv = "devstral"    -> DevstralParse(content)
    [] OTHER                -> <<>>

\* ------------------------------------------------------------- registry
\* a model name is a sequence of name tokens; model_name.lower()
LowerToken(t) ==
  CASE t = "GLM" -> "glm" [] t = "Qwen3" -> "qwen3" [] t = "Devstral" -> "devstral"
    [] OTHER -> t

Lower(name) == [i \in DOMAIN name |-> LowerToken(name[i])]

\* re.match(r'.*tok.*', name)
NameHas(name, tok) == \E i \in 1..Len(name) : name[i] = tok

\* re.match(r'.*a[-_]b.*', name), "-coder" and "-nano" being the second half
NameHasPair(name, a, b) ==
  \E i \in 1..(Len(name) - 1) : name[i] = a /\ name[i + 1] = b

\* re.match(r'tok.*', name)
NameStarts(name, tok) == name # <<>> /\ name[1] = tok

\* "test" is the TestConverter of test_modular_converters.py, a converter
\* registered at run time; the pass-through converter accepts every name
can_handle_model(conv, model_name) ==
  CASE conv = "passthrough" -> TRUE
    [] conv = "test"        -> model_name = <<"test-model">>
    [] OTHER ->
       /\ model_name # <<>>
       /\ CASE conv = "qwen3_coder" -> NameHasPair(Lower(model_name), "qwen3", "-coder")
            [] conv = "qwen3"    -> \/ NameHas(Lower(model_name), "qwen3")
                                    \/ NameHasPair(Lower(model_name), "jan", "-nano")
            [] conv = "glm"      -> NameHas(Lower(model_name), "glm")
            [] conv = "openai"   -> NameStarts(Lower(model_name), "gpt-")
            [] conv = "claude"   -> NameHas(Lower(model_name), "claude")
            [] conv = "devstral" -> NameHas(Lower(model_name), "devstral")
            [] OTHER             -> FALSE

\* the list with the generic Qwen3 converter ahead of the Qwen3-Coder one
RegisteredConverters_GenericFirst ==
  <<"qwen3", "qwen3_coder", "glm", "openai", "claude", "passthrough">>

\* ConverterFactory._converters, in registration order
RegisteredConverters ==
  <<"qwen3_coder", "qwen3", "glm", "openai", "claude", "passthrough">>

RECURSIVE FirstMatch(_, _, _)
FirstMatch(convs, i, model_name) ==
  IF i > Len(convs) THEN "passthrough"
  ELSE IF can_handle_model(convs[i], model_name) THEN convs[i]
  ELSE FirstMatch(convs, i + 1, model_name)

\* the converters whose can_handle_model the loop of get_converter calls
RECURSIVE Probed(_, _, _)
Probed(convs, i, model_name) ==
  IF i > Len(convs) THEN <<>>
  ELSE IF can_handle_model(convs[i], model_name) THEN <<convs[i]>>
  ELSE <<convs[i]>> \o Probed(convs, i + 1, model_name)

\* ConverterFactory.get_converter on a factory whose list is converters
GetConverter(converters, model_name) ==
  IF model_name = <<>> THEN "passthrough"
  ELSE FirstMatch(converters, 1, model_name)

\* get_converter of the factory as constructed
get_converter(model_name) == GetConverter(RegisteredConverters, model_name)

\* the class get_streaming_handler instantiates for a converter
HandlerClass(conv) ==
  CASE conv = "qwen3_coder" -> "Qwen3CoderStreamingHandler"
    [] conv = "qwen3"       -> "Qwen3StreamingHandler"
    [] conv = "glm"         -> "GLMStreamingHandler"
    [] conv = "openai"      -> "OpenAIStreamingHandler"
    [] conv = "claude"      -> "ClaudeStreamingHandler"
    [] OTHER                -> "StreamingToolCallHandler"

\* list.insert(i, x) of Python, on a 1-based sequence
ListInsert(list, i, x) ==
  LET pos == IF i < 0 THEN (IF Len(list) + i < 0 THEN 0 ELSE Len(list) + i)
             ELSE IF i > Len(list) THEN Len(list) ELSE i
  IN  Slice(list, 1, pos) \o <<x>> \o Slice(list, pos + 1, Len(list))

\* ConverterFactory.register_converter; priority is None or <<n>>
register_converter(converters, conv, priority) ==
  IF priority = <<>> THEN ListInsert(converters, -1, conv)
  ELSE ListInsert(converters, priority[1], conv)

\* ---------------------------------------------------- streaming handler
\* Python's None, and what `if x:` rejects among dicts
None == <<>>

\* `if value:` on a str or None
Truthy(value) == value # <<>> /\ value # Null

\* dict.get(key, default)
Get(d, key, default) == IF key \in DOMAIN d THEN d[key] ELSE default

\* StreamingToolCallHandler.__init__; conv "none" stands for `handler = None`
NoHandler ==
  [conv |-> "none", buffer |-> <<>>,
   tool_call_detected |-> FALSE, tool_call_complete |-> FALSE]

get_streaming_handler(model_name) ==
  [NoHandler EXCEPT !.conv = get_converter(model_name)]

\* IndexedCalls counting from 1 instead of enumerate's 0
IndexedCalls_OneBased(tool_calls) ==
  [i \in DOMAIN tool_calls |->
     [index |-> i, id |-> tool_calls[i].id, type |-> tool_calls[i].type,
      function |-> tool_calls[i].function]]

\* the delta.tool_calls list built from the parsed calls, index = position
IndexedCalls(tool_calls) ==
  [i \in DOMAIN tool_calls |->
     [index |-> i - 1, id |-> tool_calls[i].id, type |-> tool_calls[i].type,
      function |-> tool_calls[i].function]]

_convert_to_tool_call_chunk(h, flag, original_chunk) ==
  LET tool_calls    == parse_tool_calls(h.conv, h.buffer)
      clean_content == _remove_empty_think_tags(_clean_content(h.conv, flag, h.buffer))
  IN  IF tool_calls = <<>> THEN original_chunk
      ELSE [id      |-> Get(original_chunk, "id", "chunk"),
            object  |-> "chat.completion.chunk",
            created |-> Get(original_chunk, "created", "now"),
            model   |-> Get(original_chunk, "model", <<>>),
            choices |-> <<[index |-> 0,
                           delta |-> [role |-> "assistant",
                                      content |-> IF clean_content # <<>>
                                                  THEN clean_content ELSE Null,
                                      tool_calls |-> IndexedCalls(tool_calls)],
                           finish_reason |-> "tool_calls"]>>]

\* the content-bearing branch of process_chunk
HasContent(chunk) ==
  /\ Get(chunk, "choices", <<>>) # <<>>
  /\ "content" \in DOMAIN Get(chunk.choices[1], "delta", <<>>)
  /\ Truthy(chunk.choices[1].delta.content)

\* Accumulate forwarding the chunk while the markup is still incomplete
Accumulate_Leaky(h, flag, chunk_data) ==
  LET buf == Concat(h.buffer, chunk_data.choices[1].delta.content)
      hb  == [h EXCEPT !.buffer = buf]
      hd  == [hb EXCEPT !.tool_call_detected = TRUE]
      hc  == [hd EXCEPT !.tool_call_complete = TRUE]
  IN  IF has_partial_tool_call(h.conv, buf)
      THEN IF is_complete_tool_call(h.conv, buf)
           THEN [h |-> hc, returned |-> TRUE,
                 ret |-> _convert_to_tool_call_chunk(hc, flag, chunk_data)]
           ELSE [h |-> hd, returned |-> TRUE, ret |-> chunk_data]
      ELSE IF h.tool_call_detected /\ ~h.tool_call_complete
      THEN [h |-> hb, returned |-> TRUE, ret |-> None]
      ELSE [h |-> hb, returned |-> FALSE, ret |-> None]

\* Accumulate emptying the buffer once the converted frame was built
Accumulate_Resets(h, flag, chunk_data) ==
  LET buf == Concat(h.buffer, chunk_data.choices[1].delta.content)
      hb  == [h EXCEPT !.buffer = buf]
      hd  == [hb EXCEPT !.tool_call_detected = TRUE]
      hc  == [hd EXCEPT !.tool_call_complete = TRUE]
  IN  IF has_partial_tool_call(h.conv, buf)
      THEN IF is_complete_tool_call(h.conv, buf)
           THEN [h |-> [hc EXCEPT !.buffer = <<>>], returned |-> TRUE,
                 ret |-> _convert_to_tool_call_chunk(hc, flag, chunk_data)]
           ELSE [h |-> hd, returned |-> TRUE, ret |-> None]
      ELSE IF h.tool_call_detected /\ ~h.tool_call_complete
      THEN [h |-> hb, returned |-> TRUE, ret |-> None]
      ELSE [h |-> hb, returned |-> FALSE, ret |-> None]

\* process_chunk, lines 111-128: the content is appended and the markers are
\* checked; returned tells whether one of the return statements was taken
Accumulate(h, flag, chunk_data) ==
  LET buf == Concat(h.buffer, chunk_data.choices[1].delta.content)
      hb  == [h EXCEPT !.buffer = buf]
      hd  == [hb EXCEPT !.tool_call_detected = TRUE]
      hc  == [hd EXCEPT !.tool_call_complete = TRUE]
  IN  IF has_partial_tool_call(h.conv, buf)
      THEN IF is_complete_tool_call(h.conv, buf)
           THEN [h |-> hc, returned |-> TRUE,
                 ret |-> _convert_to_tool_call_chunk(hc, flag, chunk_data)]
           ELSE [h |-> hd, returned |-> TRUE, ret |-> None]
      ELSE IF h.tool_call_detected /\ ~h.tool_call_complete
      THEN [h |-> hb, returned |-> TRUE, ret |-> None]
      ELSE [h |-> hb, returned |-> FALSE, ret |-> None]

\* AfterAccumulate with the pass-through test inverted
AfterAccumulate_Inverted(h, chunk_data) ==
  IF h.tool_call_detected THEN chunk_data
  ELSE IF h.tool_call_complete THEN None
  ELSE None

\* process_chunk, lines 130-138: what is returned when the content branch
\* did not return
AfterAccumulate(h, chunk_data) ==
  IF ~h.tool_call_detected THEN chunk_data
  ELSE IF h.tool_call_complete THEN None
  ELSE chunk_data

\* StreamingToolCallHandler.process_chunk (OpenAIStreamingHandler overrides
\* it): the handler after the call and the value returned
process_chunk(h, flag, chunk_data) ==
  IF h.conv = "openai" THEN [h |-> h, ret |-> chunk_data]
  ELSE IF Get(chunk_data, "choices", <<>>) = <<>> THEN [h |-> h, ret |-> chunk_data]
  ELSE IF HasContent(chunk_data)
  THEN LET acc == Accumulate(h, flag, chunk_data)
       IN  IF acc.returned THEN [h |-> acc.h, ret |-> acc.ret]
           ELSE [h |-> acc.h, ret |-> AfterAccumulate(acc.h, chunk_data)]
  ELSE [h |-> h, ret |-> AfterAccumulate(h, chunk_data)]

StopChunk == [choices |-> <<[index |-> 0, delta |-> <<>>, finish_reason |-> "stop"]>>]

\* finalize ignoring tool_call_complete
finalize_IgnoresComplete(h) ==
  IF h.tool_call_detected THEN StopChunk ELSE None

finalize(h) ==
  IF h.tool_call_detected /\ ~h.tool_call_complete THEN StopChunk ELSE None

\* ------------------------------------------------- response transform
\* has_partial_tool_call(None) raises TypeError in the converters that test
\* `marker in content`; the base, OpenAI and pass-through ones never look
Raises(conv, content) ==
  content = Null /\ conv \in {"glm", "qwen3", "qwen3_coder", "claude", "devstral"}

\* CleanupOnly that also strips the content
CleanupOnly_Strips(choice) ==
  [choice EXCEPT !.message.content =
     IF @ = Null THEN @ ELSE Strip(_remove_empty_think_tags(@))]

\* convert_response, lines 49-55: no marker, only the common cleanup
CleanupOnly(choice) ==
  [choice EXCEPT !.message.content =
     IF @ = Null THEN @ ELSE _remove_empty_think_tags(@)]

\* WithToolCalls building a new message of content and tool_calls only
WithToolCalls_NewMessage(conv, flag, choice, tool_calls) ==
  LET clean_content ==
        _remove_empty_think_tags(_clean_content(conv, flag, choice.message.content))
  IN  [k \in DOMAIN choice \cup {"finish_reason"} |->
         CASE k = "message"       -> IF Strip(clean_content) = <<>>
                                     THEN [tool_calls |-> tool_calls]
                                     ELSE [content |-> clean_content,
                                           tool_calls |-> tool_calls]
           [] k = "finish_reason" -> "tool_calls"
           [] OTHER               -> choice[k]]

\* convert_response, lines 57-72: the message and finish_reason of a choice
\* in whose content parse found tool_calls
WithToolCalls(conv, flag, choice, tool_calls) ==
  LET message == choice.message
      clean_content ==
        _remove_empty_think_tags(_clean_content(conv, flag, message.content))
      keep == IF Strip(clean_content) = <<>>
              THEN (DOMAIN message \cup {"tool_calls"}) \ {"content"}
              ELSE DOMAIN message \cup {"tool_calls"}
      msg == [k \in keep |->
                CASE k = "tool_calls" -> tool_calls
                  [] k = "content"    -> clean_content
                  [] OTHER            -> message[k]]
  IN  [k \in DOMAIN choice \cup {"finish_reason"} |->
         CASE k = "message"       -> msg
           [] k = "finish_reason" -> "tool_calls"
           [] OTHER               -> choice[k]]

\* the body of the loop over response_data['choices']
ConvertChoice(conv, flag, choice) ==
  IF "message" \notin DOMAIN choice THEN choice
  ELSE IF "content" \notin DOMAIN choice.message THEN choice
  ELSE IF ~has_partial_tool_call(conv, choice.message.content)
  THEN CleanupOnly(choice)
  ELSE IF parse_tool_calls(conv, choice.message.content) = <<>> THEN choice
  ELSE WithToolCalls(conv, flag, choice,
                     parse_tool_calls(conv, choice.message.content))

\* convert_response without the override of OpenAIToolCallConverter
convert_response_NoOverride(conv, flag, response_data) ==
  IF "choices" \notin DOMAIN response_data
  THEN [ok |-> TRUE, doc |-> response_data]
  ELSE IF \E i \in DOMAIN response_data.choices :
            /\ "message" \in DOMAIN response_data.choices[i]
            /\ "content" \in DOMAIN response_data.choices[i].message
            /\ Raises(conv, response_data.choices[i].message.content)
  THEN [ok |-> FALSE, doc |-> response_data]
  ELSE [ok |-> TRUE,
        doc |-> [response_data EXCEPT !.choices =
                   [i \in DOMAIN @ |-> ConvertChoice(conv, flag, @[i])]]]

\* ToolCallConverter.convert_response (OpenAIToolCallConverter overrides it):
\* ok is FALSE when the call raises
convert_response(conv, flag, response_data) ==
  IF conv = "openai" \/ "choices" \notin DOMAIN response_data
  THEN [ok |-> TRUE, doc |-> response_data]
  ELSE IF \E i \in DOMAIN response_data.choices :
            /\ "message" \in DOMAIN response_data.choices[i]
            /\ "content" \in DOMAIN response_data.choices[i].message
            /\ Raises(conv, response_data.choices[i].message.content)
  THEN [ok |-> FALSE, doc |-> response_data]
  ELSE [ok |-> TRUE,
        doc |-> [response_data EXCEPT !.choices =
                   [i \in DOMAIN @ |-> ConvertChoice(conv, flag, @[i])]]]

\* ConverterFactory.detect_model_from_response
detect_model_from_response(response_data) ==
  IF Get(response_data, "model", <<>>) # <<>> THEN response_data.model ELSE None

\* ProxyHandler._handle_regular_response with convert_tool_calls set, for a
\* JSON body: the reply, or the 500 of forward_request when it raises
_handle_regular_response(flag, response_data) ==
  LET model_name == detect_model_from_response(response_data)
      r == convert_response(get_converter(model_name), flag, response_data)
  IN  IF r.ok THEN [status |-> 200, body |-> r.doc]
      ELSE [status |-> 500, body |-> [error |-> "Proxy request failed"]]

\* response.json() raises json.JSONDecodeError: the body is not JSON
IsNotJSON(response) == "status_code" \in DOMAIN response

\* RegularResponse answering every non-JSON body with the 500 of a failure
RegularResponse_Fails(flag, response) ==
  IF IsNotJSON(response)
  THEN [status |-> 500, body |-> [error |-> "Proxy request failed"]]
  ELSE _handle_regular_response(flag, response)

\* ProxyHandler._handle_regular_response with convert_tool_calls set: the
\* JSON path, or `except json.JSONDecodeError` returning response.content
RegularResponse(flag, response) ==
  IF IsNotJSON(response)
  THEN [status |-> response.status_code, body |-> response.content]
  ELSE _handle_regular_response(flag, response)

\* ------------------------------------------------------ bounds, inputs
\* upstream lines relayed before the stream ends
MaxLines == 3

\* model names a backend reports
ModelNames ==
  {<<"glm", "-4.5">>, <<"qwen3", "-coder">>, <<"qwen3", "-8b">>,
   <<"gpt-", "4">>, <<"claude", "-3">>, <<"llama">>, <<>>}

\* delta.content values the backend of a model family sends
DeltasFor(conv) ==
  CASE conv = "glm" ->
         {<<TXT, WS>>, <<TC, TXT, AK, TXT, EAK>>, <<AV, TXT, EAV, ETC>>,
          <<TC, TXT, AK, TXT, EAK, AV, TXT, EAV, ETC>>, <<TR, J, ETR>>, <<TH, ETH>>}
    [] conv = "qwen3" ->
         {<<TXT, WS>>, <<TC, J>>, <<ETC>>, <<TC, J, ETC>>, <<TC, BJ, ETC>>, <<TH, ETH>>}
    [] conv = "qwen3_coder" ->
         {<<TXT, WS>>, <<TC, FN, PM, TXT, EPM>>, <<EFN, ETC>>,
          <<TC, FN, PM, TXT, EPM, EFN, ETC>>, <<TC, ETC>>, <<TH, ETH>>}
    [] conv = "claude" ->
         {<<TXT, WS>>, <<IV, CP, TXT>>, <<EPM, EIV>>,
          <<IV, CP, TXT, EPM, EIV>>, <<IV, EIV>>, <<TH, ETH>>}
    [] OTHER ->
         {<<TXT, WS>>, <<TC, J, ETC>>, <<TH, ETH>>}

\* one chat.completion.chunk object of the backend
Chunk(m, delta, finish) ==
  [id |-> "c1", created |-> 1, model |-> m,
   choices |-> <<[index |-> 0, delta |-> delta, finish_reason |-> finish]>>]

ContentChunk(m, piece) == Chunk(m, [content |-> piece], "null")
RoleChunk(m)           == Chunk(m, [role |-> "assistant"], "null")
EmptyContentChunk(m)   == Chunk(m, [role |-> "assistant", content |-> <<>>], "null")
TerminalChunk(m)       == Chunk(m, <<>>, "stop")
UsageChunk(m)          == [id |-> "c1", created |-> 1, model |-> m, choices |-> <<>>]

BackendChunks(m) ==
  {ContentChunk(m, piece) : piece \in DeltasFor(get_converter(m))}
    \cup {RoleChunk(m), EmptyContentChunk(m), TerminalChunk(m), UsageChunk(m)}

\* pieces a message content is put together from, at most MaxPieces of them
MaxPieces == 2

ContentPieces(conv) ==
  DeltasFor(conv) \cup {<<WS>>, <<TH>>, <<ETH>>, <<TH, TXT, ETH>>, <<TXT, WS, TH, ETH>>}

RECURSIVE ContentsUpTo(_, _)
ContentsUpTo(conv, n) ==
  IF n = 0 THEN {<<>>}
  ELSE ContentsUpTo(conv, n - 1) \cup
       {c \o piece : c \in ContentsUpTo(conv, n - 1), piece \in ContentPieces(conv)}

\* a tool call the backend reported by itself, in the standard field
NativeCalls == <<ToolCall(<<"native">>, <<"g">>, <<>>)>>

Choice(message, finish) == [index |-> 0, message |-> message, finish_reason |-> finish]

\* the first choice of a response: any content, null, a message that already
\* has tool_calls, a message without content, a choice without message
FirstChoices(conv) ==
  {Choice([role |-> "assistant", content |-> c], "stop") : c \in ContentsUpTo(conv, MaxPieces)}
    \cup {Choice([role |-> "assistant", content |-> c, tool_calls |-> NativeCalls], "tool_calls") :
            c \in ContentsUpTo(conv, 1)}
    \cup {Choice([role |-> "assistant", content |-> Null, tool_calls |-> NativeCalls], "tool_calls"),
          Choice([role |-> "assistant"], "stop"),
          [index |-> 0, finish_reason |-> "stop"]}

\* a second choice, when the response has one
SecondChoices(conv) ==
  {Choice([role |-> "assistant", content |-> c], "length") :
     c \in {<<TXT>>, <<TH, WS, ETH, TXT>>} \cup DeltasFor(conv)}

\* the JSON bodies of the backend for a model name
BackendResponses(m) ==
  {[id |-> "r1", model |-> m, choices |-> <<c1>>] : c1 \in FirstChoices(get_converter(m))}
    \cup {[id |-> "r1", model |-> m, choices |-> <<c1, c2>>] :
            c1 \in FirstChoices(get_converter(m)), c2 \in SecondChoices(get_converter(m))}
    \cup {[id |-> "r1", model |-> m, error |-> "overloaded"]}

\* bodies of the backend that response.json() rejects, with their status
NonJSONBodies ==
  {[content |-> b, status_code |-> c] :
     b \in {"<html>Bad Gateway</html>", ""}, c \in {200, 502}}

\* the converter classes of src/converters
Converters ==
  {"glm", "qwen3", "qwen3_coder", "claude", "devstral", "openai", "passthrough"}

\* the longest text given to a converter method, in blocks, and the number
\* of method calls made on one converter
MaxBlocks == 2
MaxCalls  == 2

\* pieces of text for a converter's methods: plain text, blanks, think
\* tags alone, paired and nested, then the converter's own markup, complete,
\* with a payload json.loads rejects, and cut short
TextBlocks(conv) ==
  {<<TXT>>, <<WS>>, <<TH>>, <<ETH>>, <<TH, TXT, ETH>>, <<TH, TH, ETH, ETH>>} \cup
  CASE conv = "glm" ->
         {<<TC, TXT, AK, TXT, EAK, AV, TXT, EAV, ETC>>, <<TR, J, ETR>>,
          <<TR, BJ, ETR>>, <<TC, TXT>>}
    [] conv = "qwen3" ->
         {<<TC, J, ETC>>, <<TC, BJ, ETC>>, <<TC, J>>}
    [] conv = "qwen3_coder" ->
         {<<TC, FN, PM, TXT, EPM, EFN, ETC>>, <<TC, ETC>>, <<TC, FN>>}
    [] conv = "claude" ->
         {<<IV, CP, TXT, EPM, EIV>>, <<IV, EIV>>, <<IV, CP, TXT>>}
    [] conv = "devstral" ->
         {<<TCS, TXT, ARGS, J>>, <<TCS, TXT, ARGS, BJ>>, <<TCS, TXT, ARGS, TXT>>,
          <<TCS, WS, TXT, WS, ARGS, WS, TXT, WS>>, <<TCS, TXT>>}
    [] OTHER ->
         {<<TC, J, ETC>>}

RECURSIVE TextsUpTo(_, _)
TextsUpTo(conv, n) ==
  IF n = 0 THEN {<<>>}
  ELSE TextsUpTo(conv, n - 1) \cup
       {t \o b : t \in TextsUpTo(conv, n - 1), b \in TextBlocks(conv)}

\* ------------------------------------------------------------ SSE relay
\* ------------------------------------------------------- configuration
\* os.environ holding none of the variables Config reads
Unset == "unset"

NoEnviron == [FLASK_ENV |-> Unset, REQUEST_TIMEOUT |-> Unset, STREAMING_TIMEOUT |-> Unset]

\* os.getenv(name, default)
getenv(environ, name, default) ==
  IF environ[name] = Unset THEN default ELSE environ[name]

\* int(s) of the decimal strings the environment holds
int(s) ==
  CASE s = "0" -> 0 [] s = "60" -> 60 [] s = "120" -> 120 [] s = "180" -> 180
    [] s = "300" -> 300 [] s = "600" -> 600

\* Config.__init__: the attributes about upstream timeouts it assigns
Config(environ) ==
  [REQUEST_TIMEOUT |-> int(getenv(environ, "REQUEST_TIMEOUT", "300"))]

\* ProductionConfig.__init__
ProductionConfig(environ) == [Config(environ) EXCEPT !.REQUEST_TIMEOUT = 60]

\* get_config(): DevelopmentConfig and TestingConfig leave the timeouts of
\* Config as they are
get_config(environ) ==
  IF getenv(environ, "FLASK_ENV", "development") = "production"
  THEN ProductionConfig(environ)
  ELSE Config(environ)

\* hasattr(obj, name)
hasattr(obj, name) == name \in DOMAIN obj

VARIABLES
  remove_think_tags,  \* Config.REMOVE_THINK_TAGS
  model,              \* the model name the backend reports for this request
  handler,            \* generate's `handler`: NoHandler or the handler's fields
  out,                \* what generate has yielded, in order
  pc,                 \* "open": reading lines; "done": broke out at [DONE];
                      \* "eof": iter_lines ran out; "json": non-streaming
                      \* body received; "replied": non-streaming reply sent
  trace,              \* per line read: the line, the handler before, the yields
  upstream,           \* non-streaming: response.json() of the backend, or
                      \* its body and status when that is not JSON
  reply,              \* non-streaming: the Response returned to the client
  converter,          \* converter methods: the converter object called
  string,             \* converter methods: the text the next call is given
  results,            \* converter methods: per call made, the method, its
                      \* argument and what it returned
  _converters,        \* ConverterFactory._converters of converter_factory
  call,               \* factory: the last method call made on the factory
  objects,            \* two requests: the handler objects built so far
  streams,            \* two requests: per request its model, the handler
                      \* its generate() holds, the lines read, the yields
  config              \* config.config: the attributes Config.__init__ set
                      \* that forward_request reads for the timeout

vars == <<remove_think_tags, model, handler, out, pc, trace, upstream, reply,
          converter, string, results, _converters, call, objects, streams,
          config>>

streamVars == <<handler, out, trace>>
respVars   == <<upstream, reply>>
textVars   == <<converter, string, results>>
factoryVars == <<_converters, call>>
pairVars   == <<objects, streams>>

Init ==
  /\ remove_think_tags \in BOOLEAN
  /\ model \in ModelNames
  /\ handler = NoHandler
  /\ out = <<>>
  /\ pc = "open"
  /\ trace = <<>>
  /\ upstream = None
  /\ reply = None
  /\ converter = None
  /\ string = <<>>
  /\ results = <<>>
  /\ _converters = RegisteredConverters
  /\ call = None
  /\ objects = <<>>
  /\ streams = <<>>
  /\ config = get_config(NoEnviron)

\* Relay writing what a line yields ahead of what was written before
Relay_Prepend(line, h, res) ==
  /\ handler' = h
  /\ out' = res \o out
  /\ trace' = Append(trace, [line |-> line, pre |-> handler, res |-> res])
  /\ UNCHANGED <<config, remove_think_tags, model, respVars, textVars, factoryVars, pairVars>>

\* one iteration of `for line in response.iter_lines(...)`
Relay(line, h, res) ==
  /\ handler' = h
  /\ out' = out \o res
  /\ trace' = Append(trace, [line |-> line, pre |-> handler, res |-> res])
  /\ UNCHANGED <<config, remove_think_tags, model, respVars, textVars, factoryVars, pairVars>>

CanRead == pc = "open" /\ Len(trace) < MaxLines

\* `if not line: yield '\n'`
RecvBlank ==
  /\ CanRead
  /\ Relay([t |-> "blank"], handler, <<[t |-> "blank"]>>)
  /\ pc' = pc

\* a line that does not start with 'data: ' (a comment, an event name)
RecvOther ==
  /\ CanRead
  /\ Relay([t |-> "other", text |-> ": ping"], handler,
           <<[t |-> "raw", text |-> ": ping"]>>)
  /\ pc' = pc

\* a data line whose payload json.loads rejects
RecvBadJSON ==
  /\ CanRead
  /\ Relay([t |-> "data", text |-> "data: {oops"], handler,
           <<[t |-> "raw", text |-> "data: {oops"]>>)
  /\ pc' = pc

\* a data line holding a chunk object
RecvChunk ==
  /\ CanRead
  /\ \E chunk_data \in BackendChunks(model) :
       LET h0 == IF handler.conv = "none"
                 THEN get_streaming_handler(Get(chunk_data, "model", <<>>))
                 ELSE handler
           r  == process_chunk(h0, remove_think_tags, chunk_data)
       IN  Relay([t |-> "data", chunk |-> chunk_data], r.h,
                 IF r.ret # None THEN <<[t |-> "data", chunk |-> r.ret]>> ELSE <<>>)
  /\ pc' = pc

\* 'data: [DONE]': finalize, yield the sentinel, break
RecvDone ==
  /\ pc = "open"
  /\ LET final_chunk == IF handler.conv # "none" THEN finalize(handler) ELSE None
     IN  Relay([t |-> "done"], handler,
               (IF final_chunk # None THEN <<[t |-> "data", chunk |-> final_chunk]>>
                ELSE <<>>) \o <<[t |-> "done"]>>)
  /\ pc' = "done"

\* the upstream closes without a [DONE] line: the for loop just ends
RecvEOF ==
  /\ pc = "open"
  /\ pc' = "eof"
  /\ UNCHANGED <<config, remove_think_tags, model, streamVars, respVars, textVars, factoryVars, pairVars>>

Next == RecvBlank \/ RecvOther \/ RecvBadJSON \/ RecvChunk \/ RecvDone \/ RecvEOF

Spec == Init /\ [][Next]_vars

\* ------------------------------------------------ non-streaming request
InitResp ==
  /\ remove_think_tags \in BOOLEAN
  /\ model \in ModelNames
  /\ handler = NoHandler
  /\ out = <<>>
  /\ trace = <<>>
  /\ pc = "json"
  /\ upstream \in BackendResponses(model) \cup NonJSONBodies
  /\ reply = None
  /\ converter = None
  /\ string = <<>>
  /\ results = <<>>
  /\ _converters = RegisteredConverters
  /\ call = None
  /\ objects = <<>>
  /\ streams = <<>>
  /\ config = get_config(NoEnviron)

\* forward_request with stream = False and conversion enabled
HandleRegularResponse ==
  /\ pc = "json"
  /\ reply' = RegularResponse(remove_think_tags, upstream)
  /\ pc' = "replied"
  /\ UNCHANGED <<config, remove_think_tags, model, streamVars, upstream, textVars, factoryVars, pairVars>>

NextResp == HandleRegularResponse

SpecResp == InitResp /\ [][NextResp]_vars

\* forward_request with conversion enabled: `if stream:` the SSE relay,
\* `else:` the regular response
InitProxy == Init \/ InitResp

NextProxy == Next \/ NextResp

SpecProxy == InitProxy /\ [][NextProxy]_vars

\* ---------------------------------------------------- converter methods
\* a converter is built and its methods are called on a text, as
\* convert_response and the streaming handler call them
InitText ==
  /\ remove_think_tags \in BOOLEAN
  /\ model = <<>>
  /\ handler = NoHandler
  /\ out = <<>>
  /\ trace = <<>>
  /\ pc = "text"
  /\ upstream = None
  /\ reply = None
  /\ converter \in Converters
  /\ string \in TextsUpTo(converter, MaxBlocks)
  /\ results = <<>>
  /\ _converters = RegisteredConverters
  /\ call = None
  /\ objects = <<>>
  /\ streams = <<>>
  /\ config = get_config(NoEnviron)

CanCall == pc = "text" /\ Len(results) < MaxCalls

\* tool_calls = self.parse_tool_calls(content)
CallParse ==
  /\ CanCall
  /\ results' = Append(results, [op |-> "parse", arg |-> string,
                                  ret |-> parse_tool_calls(converter, string)])
  /\ UNCHANGED <<config, remove_think_tags, model, streamVars, pc, respVars, converter, string,
               factoryVars, pairVars>>

\* clean_content = self._clean_content(content); the next call is given
\* the cleaned text
CallClean ==
  /\ CanCall
  /\ LET ret == _clean_content(converter, remove_think_tags, string)
     IN  /\ results' = Append(results, [op |-> "clean", arg |-> string, ret |-> ret])
         /\ string' = ret
  /\ UNCHANGED <<config, remove_think_tags, model, streamVars, pc, respVars, converter, factoryVars, pairVars>>

\* content = self._remove_empty_think_tags(content), the base class method
\* every converter inherits
CallRemoveEmptyThink ==
  /\ CanCall
  /\ LET ret == _remove_empty_think_tags(string)
     IN  /\ results' = Append(results, [op |-> "sanitize", arg |-> string, ret |-> ret])
         /\ string' = ret
  /\ UNCHANGED <<config, remove_think_tags, model, streamVars, pc, respVars, converter, factoryVars, pairVars>>

NextText == CallParse \/ CallClean \/ CallRemoveEmptyThink

SpecText == InitText /\ [][NextText]_vars

\* ------------------------------------------------------------ factory
\* register_converter calls made on one factory
MaxRegistered == 2

\* converters registered at run time: the Devstral converter, which the
\* factory does not list, and the TestConverter of the tests
Registrable == {"devstral", "test"}

\* model names looked up
LookupNames ==
  ModelNames \cup {<<"Qwen3", "-coder">>, <<"jan", "-nano">>, <<"GLM", "-4.5">>,
                   <<"devstral", "-small">>, <<"Devstral">>, <<"test-model">>}

\* converter_factory = ConverterFactory()
InitFactory ==
  /\ remove_think_tags = TRUE
  /\ model = <<>>
  /\ handler = NoHandler
  /\ out = <<>>
  /\ trace = <<>>
  /\ pc = "factory"
  /\ upstream = None
  /\ reply = None
  /\ converter = None
  /\ string = <<>>
  /\ results = <<>>
  /\ _converters = RegisteredConverters
  /\ call = None
  /\ objects = <<>>
  /\ streams = <<>>
  /\ config = get_config(NoEnviron)

\* converter_factory.register_converter(converter[, priority])
RegisterConverter ==
  /\ pc = "factory"
  /\ Len(_converters) < Len(RegisteredConverters) + MaxRegistered
  /\ \E conv \in Registrable :
       \E priority \in {None, <<-1>>, <<0>>, <<Len(_converters)>>} :
         /\ _converters' = register_converter(_converters, conv, priority)
         /\ call' = [op |-> "register_converter", arg |-> conv, priority |-> priority]
  /\ UNCHANGED <<config, remove_think_tags, model, streamVars, pc, respVars, textVars, pairVars>>

\* converter_factory.get_converter(model_name)
CallGetConverter ==
  /\ pc = "factory"
  /\ \E model_name \in LookupNames :
       call' = [op |-> "get_converter", arg |-> model_name,
                ret |-> GetConverter(_converters, model_name),
                probed |-> IF model_name = <<>> THEN <<>>
                           ELSE Probed(_converters, 1, model_name)]
  /\ UNCHANGED <<config, remove_think_tags, model, streamVars, pc, respVars, textVars, _converters, pairVars>>

\* converter_factory.get_streaming_handler(model_name)
CallGetStreamingHandler ==
  /\ pc = "factory"
  /\ \E model_name \in LookupNames :
       call' = [op |-> "get_streaming_handler", arg |-> model_name,
                ret |-> [class |-> HandlerClass(GetConverter(_converters, model_name)),
                         converter |-> GetConverter(_converters, model_name)]]
  /\ UNCHANGED <<config, remove_think_tags, model, streamVars, pc, respVars, textVars, _converters, pairVars>>

NextFactory == RegisterConverter \/ CallGetConverter \/ CallGetStreamingHandler

SpecFactory == InitFactory /\ [][NextFactory]_vars

\* ------------------------------------------- two requests in flight
\* total number of lines the two generators read
MaxPairLines == 4

\* models of the two requests
PairModels == {<<"glm", "-4.5">>, <<"qwen3", "-8b">>}

\* content the backends stream: text and the two halves of a tool call
PairDeltas(conv) ==
  {d \in DeltasFor(conv) : ~is_complete_tool_call(conv, d) /\ ~Contains(d, TH)}

PairChunks(m) == {ContentChunk(m, piece) : piece \in PairDeltas(get_converter(m))}

\* one iteration of generate()'s for loop on `line`, the generator holding
\* handler `h`: the handler afterwards, what is yielded, whether the loop
\* goes on
GenerateLine(h, flag, line) ==
  CASE line.t = "blank" ->
         [h |-> h, res |-> <<[t |-> "blank"]>>, pc |-> "open"]
    [] line.t = "done" ->
         LET final_chunk == IF h.conv # "none" THEN finalize(h) ELSE None
         IN  [h |-> h,
              res |-> (IF final_chunk # None
                       THEN <<[t |-> "data", chunk |-> final_chunk]>> ELSE <<>>)
                      \o <<[t |-> "done"]>>,
              pc |-> "done"]
    [] line.t = "data" /\ "chunk" \in DOMAIN line ->
         LET h0 == IF h.conv = "none"
                   THEN get_streaming_handler(Get(line.chunk, "model", <<>>))
                   ELSE h
             r  == process_chunk(h0, flag, line.chunk)
         IN  [h |-> r.h,
              res |-> IF r.ret # None THEN <<[t |-> "data", chunk |-> r.ret]>>
                      ELSE <<>>,
              pc |-> "open"]
    [] OTHER ->
         [h |-> h, res |-> <<[t |-> "raw", text |-> line.text]>>, pc |-> "open"]

\* generate() run on `lines` from position i by itself
RECURSIVE GenerateFrom(_, _, _, _, _)
GenerateFrom(lines, i, h, flag, yielded) ==
  IF i > Len(lines) THEN [h |-> h, out |-> yielded]
  ELSE LET g == GenerateLine(h, flag, lines[i])
       IN  GenerateFrom(lines, i + 1, g.h, flag, yielded \o g.res)

Generate(lines, flag) == GenerateFrom(lines, 1, NoHandler, flag, <<>>)

\* one handler object serving every request
NewHandler_Singleton(heap, model_name) ==
  IF heap = <<>>
  THEN [ref |-> 1, objects |-> <<get_streaming_handler(model_name)>>]
  ELSE [ref |-> 1, objects |-> heap]

\* get_streaming_handler builds a new handler object at every call
NewHandler(heap, model_name) ==
  [ref |-> Len(heap) + 1,
   objects |-> Append(heap, get_streaming_handler(model_name))]

\* two forward_request calls with stream = True, each with its generator;
\* handler 0 is `handler = None`
InitPair ==
  /\ remove_think_tags \in BOOLEAN
  /\ model = <<>>
  /\ handler = NoHandler
  /\ out = <<>>
  /\ trace = <<>>
  /\ pc = "pair"
  /\ upstream = None
  /\ reply = None
  /\ converter = None
  /\ string = <<>>
  /\ results = <<>>
  /\ _converters = RegisteredConverters
  /\ call = None
  /\ objects = <<>>
  /\ streams \in [{1, 2} -> {[model |-> m, handler |-> 0, lines |-> <<>>,
                              out |-> <<>>, pc |-> "open"] : m \in PairModels}]
  /\ config = get_config(NoEnviron)

PairLines == Len(streams[1].lines) + Len(streams[2].lines)

\* the generator of request r runs one iteration of its loop on `line`
PairRelay(r, line) ==
  LET st  == streams[r]
      new == IF st.handler = 0 /\ line.t = "data" /\ "chunk" \in DOMAIN line
             THEN NewHandler(objects, Get(line.chunk, "model", <<>>))
             ELSE [ref |-> st.handler, objects |-> objects]
  IN  \E h \in {IF new.ref = 0 THEN NoHandler ELSE new.objects[new.ref]} :
        \E g \in {GenerateLine(h, remove_think_tags, line)} :
          /\ objects' = IF new.ref = 0 THEN objects
                        ELSE [new.objects EXCEPT ![new.ref] = g.h]
          /\ streams' = [streams EXCEPT ![r] =
                           [model |-> st.model, handler |-> new.ref,
                            lines |-> Append(st.lines, line),
                            out |-> st.out \o g.res, pc |-> g.pc]]
          /\ UNCHANGED <<config, remove_think_tags, model, streamVars, pc, respVars,
                         textVars, factoryVars>>

\* the lines the backend of model m may send next
UpstreamLines(m) ==
  {[t |-> "data", text |-> "data: {oops"], [t |-> "done"]}
    \cup {[t |-> "data", chunk |-> chunk_data] : chunk_data \in PairChunks(m)}

\* either generator reads its next line
PairGenerate ==
  /\ pc = "pair"
  /\ PairLines < MaxPairLines
  /\ \E r \in {1, 2} :
       /\ streams[r].pc = "open"
       /\ \E line \in UpstreamLines(streams[r].model) : PairRelay(r, line)

NextPair == PairGenerate

SpecPair == InitPair /\ [][NextPair]_vars

\* -------------------------------------------------- the legacy wrapper
\* model names the legacy ToolCallConverter of app.py is created with; None
\* is ToolCallConverter()
LegacyModelNames == {None, <<"glm", "-4.5">>, <<"llama">>}

\* ToolCallConverter._get_converter of app.py: the cached converter, or
\* converter_factory.get_converter(self.model_name or ""); "none" stands
\* for `self._converter = None`
_get_converter(model_name, cached) ==
  IF cached = "none" THEN get_converter(model_name) ELSE cached

\* ToolCallConverter.parse_glm_tool_calls of app.py
parse_glm_tool_calls(model_name, cached, content) ==
  parse_tool_calls(_get_converter(model_name, cached), content)

\* ToolCallConverter(model_name) is built and given a text in GLM markup
InitLegacy ==
  /\ remove_think_tags \in BOOLEAN
  /\ model \in LegacyModelNames
  /\ handler = NoHandler
  /\ out = <<>>
  /\ trace = <<>>
  /\ pc = "legacy"
  /\ upstream = None
  /\ reply = None
  /\ converter = "none"
  /\ string \in TextsUpTo("glm", MaxBlocks)
  /\ results = <<>>
  /\ _converters = RegisteredConverters
  /\ call = None
  /\ objects = <<>>
  /\ streams = <<>>
  /\ config = get_config(NoEnviron)

\* self.converter.parse_glm_tool_calls(content)
CallParseGLM ==
  /\ pc = "legacy"
  /\ Len(results) < MaxCalls
  /\ converter' = _get_converter(model, converter)
  /\ results' = Append(results,
                       [op |-> "parse_glm_tool_calls", arg |-> string,
                        ret |-> parse_glm_tool_calls(model, converter, string)])
  /\ UNCHANGED <<config, remove_think_tags, model, streamVars, pc, respVars, string,
                 factoryVars, pairVars>>

NextLegacy == CallParseGLM

SpecLegacy == InitLegacy /\ [][NextLegacy]_vars

\* --------------------------------------------- the Devstral handler
\* delta.content values of a Devstral backend: text, the marker with the
\* command name and [ARGS], the payload, all in one, and cut elsewhere
DevstralDeltas ==
  {<<TXT, WS>>, <<TCS, TXT, ARGS>>, <<J>>, <<BJ>>, <<TCS, TXT, ARGS, J>>,
   <<TCS, TXT>>, <<ARGS, J>>}

DevstralChunks ==
  {ContentChunk(<<"devstral", "-small">>, piece) : piece \in DevstralDeltas}
    \cup {TerminalChunk(<<"devstral", "-small">>)}

\* handler = DevstralStreamingHandler()
InitDevstral ==
  /\ remove_think_tags \in BOOLEAN
  /\ model = <<"devstral", "-small">>
  /\ handler = [NoHandler EXCEPT !.conv = "devstral"]
  /\ out = <<>>
  /\ trace = <<>>
  /\ pc = "handler"
  /\ upstream = None
  /\ reply = None
  /\ converter = None
  /\ string = <<>>
  /\ results = <<>>
  /\ _converters = RegisteredConverters
  /\ call = None
  /\ objects = <<>>
  /\ streams = <<>>
  /\ config = get_config(NoEnviron)

\* handler.process_chunk(chunk_data); what it returns is sent when it is
\* not None
DevstralProcessChunk ==
  /\ pc = "handler"
  /\ Len(trace) < MaxLines
  /\ \E chunk_data \in DevstralChunks :
       \E r \in {process_chunk(handler, remove_think_tags, chunk_data)} :
         Relay([t |-> "data", chunk |-> chunk_data], r.h,
               IF r.ret # None THEN <<[t |-> "data", chunk |-> r.ret]>> ELSE <<>>)
  /\ pc' = pc

\* handler.finalize() at the end of the stream
DevstralFinalize ==
  /\ pc = "handler"
  /\ \E final_chunk \in {finalize(handler)} :
       Relay([t |-> "done"], handler,
             IF final_chunk # None THEN <<[t |-> "data", chunk |-> final_chunk]>>
             ELSE <<>>)
  /\ pc' = "finalized"

NextDevstral == DevstralProcessChunk \/ DevstralFinalize

SpecDevstral == InitDevstral /\ [][NextDevstral]_vars

\* ------------------------------------------- frames without a model
\* a role frame that carries no "model" field
ModelLessChunk ==
  [id |-> "c1", created |-> 1,
   choices |-> <<[index |-> 0, delta |-> [role |-> "assistant"],
                  finish_reason |-> "null"]>>]

\* the lines of a stream whose frames need not all name the model
StreamLines(m) ==
  UpstreamLines(m)
    \cup {[t |-> "data", chunk |-> RoleChunk(m)],
          [t |-> "data", chunk |-> ModelLessChunk]}

\* one iteration of the for loop of generate() on any of these lines
RecvLine ==
  /\ pc = "open"
  /\ Len(trace) < MaxLines
  /\ \E line \in StreamLines(model) :
       \E g \in {GenerateLine(handler, remove_think_tags, line)} :
         Relay(line, g.h, g.res) /\ pc' = g.pc

NextStream == RecvLine

SpecStream == Init /\ [][NextStream]_vars

\* ------------------------------------------------------ forward_request
\* ProxyHandler.forward_request(path, stream, convert_tool_calls = True):
\* the timeout it chooses, whether requests.request is reached, and what it
\* returns. Reading an attribute the config object lacks raises
\* AttributeError, which `except Exception` answers with 500
Environs ==
  [FLASK_ENV : {Unset, "production", "testing"},
   REQUEST_TIMEOUT : {Unset, "60", "180"},
   STREAMING_TIMEOUT : {Unset, "600", "0"}]

\* the JSON bodies the backend answers a regular request with
ForwardResponses(m) ==
  {[id |-> "r1", model |-> m,
    choices |-> <<Choice([role |-> "assistant", content |-> c], "stop")>>] :
     c \in ContentsUpTo(get_converter(m), 1)}
    \cup {[id |-> "r1", model |-> m, error |-> "overloaded"]}

ProxyFailed == [status |-> 500, body |-> [error |-> "Proxy request failed"]]

forward_request(cfg, stream, flag, response) ==
  IF ~hasattr(cfg, IF stream THEN "STREAMING_TIMEOUT" ELSE "REQUEST_TIMEOUT")
  THEN [sent |-> FALSE, timeout |-> None, ret |-> ProxyFailed]
  ELSE [sent |-> TRUE,
        timeout |-> <<IF stream THEN cfg["STREAMING_TIMEOUT"]
                      ELSE cfg["REQUEST_TIMEOUT"]>>,
        ret |-> IF stream THEN None ELSE RegularResponse(flag, response)]

\* a chat-completions request arrives: `stream` is the request body's flag
InitForward ==
  /\ remove_think_tags \in BOOLEAN
  /\ model \in {<<"glm", "-4.5">>, <<"gpt-", "4">>}
  /\ handler = NoHandler
  /\ out = <<>>
  /\ trace = <<>>
  /\ pc = "request"
  /\ upstream \in ForwardResponses(model)
  /\ reply = None
  /\ converter = None
  /\ string = <<>>
  /\ results = <<>>
  /\ _converters = RegisteredConverters
  /\ call \in [stream : BOOLEAN]
  /\ objects = <<>>
  /\ streams = <<>>
  /\ \E environ \in Environs : config = get_config(environ)

\* forward_request runs: a regular request is answered; a streaming request
\* that reached the backend goes on to generate() (pc "open")
ForwardRequest ==
  /\ pc = "request"
  /\ \E r \in {forward_request(config, call.stream, remove_think_tags, upstream)} :
       /\ call' = [stream |-> call.stream, sent |-> r.sent, timeout |-> r.timeout]
       /\ reply' = r.ret
       /\ pc' = IF call.stream /\ r.sent THEN "open" ELSE "replied"
  /\ UNCHANGED <<config, remove_think_tags, model, streamVars, upstream, textVars,
                 _converters, pairVars>>

NextForward == ForwardRequest

SpecForward == InitForward /\ [][NextForward]_vars

\* ------------------------------------------------- markers split in two
\* a GLM backend whose deltas may end inside the "<tool_call>" marker
SplitDeltas ==
  {<<TXT, WS>>, <<TCa>>, <<TXT, TCa>>,
   <<TCb, TXT, AK, TXT, EAK, AV, TXT, EAV, ETC>>,
   <<TCb, TXT, AK, TXT, EAK>>, <<AV, TXT, EAV, ETC>>,
   <<TC, TXT, AK, TXT, EAK, AV, TXT, EAV, ETC>>}

SplitLines ==
  {[t |-> "data", chunk |-> ContentChunk(<<"glm", "-4.5">>, piece)] : piece \in SplitDeltas}
    \cup {[t |-> "done"]}

InitSplit == Init /\ model = <<"glm", "-4.5">>

\* generate() reads the next line of that backend
RecvSplit ==
  /\ pc = "open"
  /\ Len(trace) < MaxLines
  /\ \E line \in SplitLines :
       \E g \in {GenerateLine(handler, remove_think_tags, line)} :
         /\ Relay(line, g.h, g.res)
         /\ pc' = g.pc

NextSplit == RecvSplit

SpecSplit == InitSplit /\ [][NextSplit]_vars

\* ------------------------------------------------- reading the trace
\* the handler after line i was processed
Post(i) == IF i < Len(trace) THEN trace[i + 1].pre ELSE handler

IsChunkLine(line) == line.t = "data" /\ "chunk" \in DOMAIN line

\* a data line whose choices[0].delta.content is a non-empty string
ContentLine(line) ==
  /\ IsChunkLine(line)
  /\ "choices" \in DOMAIN line.chunk /\ line.chunk.choices # <<>>
  /\ "content" \in DOMAIN line.chunk.choices[1].delta
  /\ line.chunk.choices[1].delta.content \notin {<<>>, Null}

DeltaContent(line) == line.chunk.choices[1].delta.content

\* a yielded event that is a frame with a choice
IsFrame(ev) == ev.t = "data" /\ "chunk" \in DOMAIN ev /\ ev.chunk.choices # <<>>

IsToolFrame(ev) == IsFrame(ev) /\ "tool_calls" \in DOMAIN ev.chunk.choices[1].delta

IsContentFrame(ev) ==
  /\ IsFrame(ev)
  /\ "content" \in DOMAIN ev.chunk.choices[1].delta
  /\ ev.chunk.choices[1].delta.content \notin {<<>>, Null}

\* a frame with empty delta and finish_reason "stop"
IsStopFrame(ev) ==
  /\ IsFrame(ev)
  /\ ev.chunk.choices[1].delta = <<>>
  /\ ev.chunk.choices[1].finish_reason = "stop"

\* a tool-call frame was yielded for one of the lines before line i
EmittedBefore(i) ==
  \E j \in 1..(i - 1) : \E k \in DOMAIN trace[j].res : IsToolFrame(trace[j].res[k])

ToolFrameCount == Cardinality({k \in DOMAIN out : IsToolFrame(out[k])})

\* the input line as the relay writes it when it forwards it untouched
Forwarded(line) ==
  CASE line.t = "blank"  -> [t |-> "blank"]
    [] line.t = "done"   -> [t |-> "done"]
    [] IsChunkLine(line) -> [t |-> "data", chunk |-> line.chunk]
    [] OTHER             -> [t |-> "raw", text |-> line.text]

\* ---------------------------------------------------------------- claims
\* C1: when a content delta leaves the buffer with a complete marker pair
\* from which parse extracts n >= 1 calls, process_chunk returns exactly one
\* frame: its tool_calls are the n parsed calls in parse order, indexed
\* 0..n-1, its content is the cleaned buffer (null when empty) and its
\* finish_reason is "tool_calls".
C1_ToolCallFrame ==
  \A i \in 1..Len(trace) :
    ContentLine(trace[i].line) =>
      LET conv  == Post(i).conv
          buf   == trace[i].pre.buffer \o DeltaContent(trace[i].line)
          calls == parse_tool_calls(conv, buf)
          clean == _remove_empty_think_tags(_clean_content(conv, remove_think_tags, buf))
          res   == trace[i].res
      IN  (is_complete_tool_call(conv, buf) /\ Len(calls) >= 1) =>
            /\ Len(res) = 1
            /\ IsToolFrame(res[1])
            /\ Len(res[1].chunk.choices) = 1
            /\ res[1].chunk.choices[1].finish_reason = "tool_calls"
            /\ Len(res[1].chunk.choices[1].delta.tool_calls) = Len(calls)
            /\ \A j \in 1..Len(calls) :
                 /\ res[1].chunk.choices[1].delta.tool_calls[j].index = j - 1
                 /\ res[1].chunk.choices[1].delta.tool_calls[j].id = calls[j].id
                 /\ res[1].chunk.choices[1].delta.tool_calls[j].type = "function"
                 /\ res[1].chunk.choices[1].delta.tool_calls[j].function = calls[j].function
            /\ res[1].chunk.choices[1].delta.content =
                 IF clean = <<>> THEN Null ELSE clean

\* a frame with two calls and some text left was returned
C1_Witness ==
  \E i \in 1..Len(trace) :
    /\ ContentLine(trace[i].line)
    /\ Len(trace[i].res) = 1
    /\ IsToolFrame(trace[i].res[1])
    /\ Len(trace[i].res[1].chunk.choices[1].delta.tool_calls) = 2
    /\ trace[i].res[1].chunk.choices[1].delta.content = <<TXT>>
    /\ Len(parse_tool_calls(Post(i).conv, Post(i).buffer)) = 2

\* C2: once the tool-call frame has been emitted, a later content-bearing
\* delta yields no output frame, so a stream delivers at most one frame
\* carrying tool_calls.
C2_NoFrameAfterEmit ==
  /\ \A i \in 1..Len(trace) :
       (ContentLine(trace[i].line) /\ trace[i].pre.tool_call_complete
          /\ EmittedBefore(i)) => trace[i].res = <<>>
  /\ ToolFrameCount <= 1

\* C3 as stated: once the tool-call frame has been emitted, exactly one
\* frame with empty delta and finish_reason "stop" is delivered after it
\* and before [DONE].
C3_TerminalFrameAfterEmit ==
  (pc = "done" /\ ToolFrameCount >= 1) =>
    \E k \in DOMAIN out :
      /\ IsStopFrame(out[k])
      /\ \E j \in 1..(k - 1) : IsToolFrame(out[j])
      /\ \A m \in DOMAIN out : (IsStopFrame(out[m]) /\ m # k) =>
           ~\E j \in 1..(m - 1) : IsToolFrame(out[j])

\* C3, amended: once the tool-call frame has been emitted, a backend frame
\* that has a choice but no content yields no output, and finalization at
\* [DONE] yields nothing but the sentinel: no terminal frame is manufactured.
C3_NothingAfterEmit ==
  \A i \in 1..Len(trace) :
    EmittedBefore(i) =>
      /\ (IsChunkLine(trace[i].line) /\ trace[i].line.chunk.choices # <<>>
            /\ ~ContentLine(trace[i].line)) => trace[i].res = <<>>
      /\ trace[i].line.t = "done" => trace[i].res = <<[t |-> "done"]>>

\* tool-call frame, a swallowed terminal frame of the backend, then [DONE]
C3_Witness ==
  /\ pc = "done"
  /\ Len(trace) = 3
  /\ Len(trace[1].res) = 1 /\ IsToolFrame(trace[1].res[1])
  /\ trace[2].line = [t |-> "data", chunk |-> TerminalChunk(model)]
  /\ trace[2].res = <<>>
  /\ Len(out) = 2

\* the first line after which the handler has tool_call_detected set
FirstDetected == CHOOSE i \in 1..Len(trace) :
  Post(i).tool_call_detected /\ \A j \in 1..(i - 1) : ~Post(j).tool_call_detected

\* C4: when [DONE] arrives with a marker detected and never completed, the
\* client has received, from the detecting delta on, no content frame and no
\* tool_calls frame, then exactly one frame with empty delta and
\* finish_reason "stop", then [DONE].
C4_IncompleteAtDone ==
  (pc = "done" /\ handler.tool_call_detected /\ ~handler.tool_call_complete) =>
    /\ \A i \in FirstDetected..Len(trace) :
         \A k \in DOMAIN trace[i].res :
           ~IsContentFrame(trace[i].res[k]) /\ ~IsToolFrame(trace[i].res[k])
    /\ ToolFrameCount = 0
    /\ trace[Len(trace)].res = <<[t |-> "data", chunk |-> StopChunk], [t |-> "done"]>>
    /\ \A i \in FirstDetected..(Len(trace) - 1) :
         \A k \in DOMAIN trace[i].res : ~IsStopFrame(trace[i].res[k])

C6_Absorbed ==
  \A i \in 1..Len(trace) :
    (/\ ContentLine(trace[i].line)
     /\ Post(i).tool_call_detected
     /\ ~is_complete_tool_call(Post(i).conv, Post(i).buffer)) =>
       /\ trace[i].res = <<>>
       /\ Post(i).buffer = trace[i].pre.buffer \o DeltaContent(trace[i].line)

\* a delta absorbed after the marker was detected by an earlier one
C6_Witness ==
  \E i \in 2..Len(trace) :
    /\ ContentLine(trace[i].line)
    /\ trace[i].pre.tool_call_detected
    /\ Post(i).tool_call_detected /\ ~Post(i).tool_call_complete
    /\ trace[i].res = <<>>
    /\ Len(Post(i).buffer) > Len(trace[i].pre.buffer)

\* C7: when the upstream ends by EOF without [DONE] with a marker detected
\* and never completed, a frame with empty delta and finish_reason "stop"
\* has been delivered once the relay has ended.
C7_FinalizeAtEOF ==
  (pc = "eof" /\ handler.tool_call_detected /\ ~handler.tool_call_complete) =>
    \E k \in DOMAIN out : IsStopFrame(out[k])

\* ------------------------------------------ claims on the transform
\* the converter the non-streaming path selects for the received body
SelectedConverter == get_converter(detect_model_from_response(upstream))

\* the reply is the transformed document (convert_response returned)
Transformed ==
  pc = "replied" /\ reply.status = 200 /\ "choices" \in DOMAIN upstream

\* indexes of the choices whose message has a string content
StringChoices ==
  {i \in DOMAIN upstream.choices :
     /\ "message" \in DOMAIN upstream.choices[i]
     /\ "content" \in DOMAIN upstream.choices[i].message
     /\ upstream.choices[i].message.content # Null}

\* indexes of the choices on whose content has_partial_tool_call returns
\* False: a string without marker, or null where the converter never looks
MarkerFreeChoices ==
  {i \in DOMAIN upstream.choices :
     /\ "message" \in DOMAIN upstream.choices[i]
     /\ "content" \in DOMAIN upstream.choices[i].message
     /\ ~Raises(SelectedConverter, upstream.choices[i].message.content)
     /\ ~has_partial_tool_call(SelectedConverter, upstream.choices[i].message.content)}

\* field f is present in both records with the same value, or in neither
SameField(a, b, f) ==
  /\ (f \in DOMAIN a) = (f \in DOMAIN b)
  /\ f \in DOMAIN a => a[f] = b[f]

\* C8: after convert_response, for every choice with string content: the
\* converter has set message.tool_calls iff parse finds >= 1 call in that
\* content; then tool_calls are the parsed calls, finish_reason is
\* "tool_calls" and message.content is the trimmed text left after the
\* cleaning (markup and empty think spans removed), the field being absent
\* when nothing is left.
C8_ToolCallsIffParsed ==
  Transformed =>
    \A i \in StringChoices :
      LET u     == upstream.choices[i]
          r     == reply.body.choices[i]
          calls == parse_tool_calls(SelectedConverter, u.message.content)
          left  == Strip(_remove_empty_think_tags(
                     _clean_content(SelectedConverter, remove_think_tags, u.message.content)))
      IN  IF calls # <<>>
          THEN /\ "tool_calls" \in DOMAIN r.message
               /\ r.message.tool_calls = calls
               /\ r.finish_reason = "tool_calls"
               /\ IF left = <<>> THEN "content" \notin DOMAIN r.message
                  ELSE "content" \in DOMAIN r.message /\ r.message.content = left
          ELSE SameField(r.message, u.message, "tool_calls")

\* C9: for a message whose content has no marker of the selected converter,
\* tool_calls, finish_reason and every other field of the choice stay as
\* they were; the content changes at most by the removal of empty think
\* spans.
C9_NoMarkerUntouched ==
  Transformed =>
    \A i \in MarkerFreeChoices :
      LET u == upstream.choices[i]
          r == reply.body.choices[i]
      IN    /\ DOMAIN r = DOMAIN u
            /\ r.finish_reason = u.finish_reason
            /\ r.index = u.index
            /\ DOMAIN r.message = DOMAIN u.message
            /\ \A f \in DOMAIN u.message \ {"content"} : r.message[f] = u.message[f]
            /\ r.message.content \in
                 {u.message.content, _remove_empty_think_tags(u.message.content)}

\* a marker-free message with native tool_calls lost its empty think span
C9_Witness ==
  /\ Transformed
  /\ SelectedConverter = "qwen3"
  /\ upstream.choices =
       <<Choice([role |-> "assistant", content |-> <<TH, ETH>>,
                 tool_calls |-> NativeCalls], "tool_calls")>>
  /\ reply.body.choices[1].message.content = <<>>
  /\ reply.body.choices[1].message.tool_calls = NativeCalls
  /\ reply.body.choices[1].finish_reason = "tool_calls"

\* no message content of the received body holds marker text
NoMarkerText ==
  /\ "choices" \in DOMAIN upstream
  /\ \A i \in DOMAIN upstream.choices :
       ("message" \in DOMAIN upstream.choices[i]
          /\ "content" \in DOMAIN upstream.choices[i].message) =>
         ~has_partial_tool_call(SelectedConverter, upstream.choices[i].message.content)

\* has_partial_tool_call returns False on every message content of the body
NoMarkers ==
  /\ "choices" \in DOMAIN upstream
  /\ \A i \in DOMAIN upstream.choices :
       ("message" \in DOMAIN upstream.choices[i]
          /\ "content" \in DOMAIN upstream.choices[i].message) =>
         i \in MarkerFreeChoices

\* the text has a <think>, blanks only, </think> span
HasEmptyThink(s) ==
  \E a \in 1..Len(s) : \E b \in (a + 1)..Len(s) :
    s[a] = TH /\ s[b] = ETH /\ \A k \in (a + 1)..(b - 1) : s[k] = WS

NoEmptyThink ==
  \A i \in StringChoices : ~HasEmptyThink(upstream.choices[i].message.content)

MarkerNoCallChoices ==
  {i \in StringChoices :
     /\ has_partial_tool_call(SelectedConverter, upstream.choices[i].message.content)
     /\ parse_tool_calls(SelectedConverter, upstream.choices[i].message.content) = <<>>}

\* C11: after convert_response, a choice whose content has a marker but
\* from which parse returns no call gets no tool_calls field, keeps its
\* finish_reason and every other field, and its content is the original
\* content with the empty think spans removed.
C11_MarkerWithoutCalls ==
  Transformed =>
    \A i \in MarkerNoCallChoices :
      LET u == upstream.choices[i]
          r == reply.body.choices[i]
      IN  /\ DOMAIN r = DOMAIN u
          /\ r.finish_reason = u.finish_reason
          /\ r.index = u.index
          /\ SameField(r.message, u.message, "tool_calls")
          /\ r.message.content = _remove_empty_think_tags(u.message.content)

\* ---------------------------------------- claims on the converter methods
\* the calls made so far of one method
CallsOf(op) == {i \in DOMAIN results : results[i].op = op}

\* the argument payloads json.loads rejects among the tool calls the
\* converter's pattern finds in the text, for the families whose payload
\* is JSON
InvalidPayloads(conv, s) ==
  CASE conv = "qwen3" ->
         {m \in {BraceFindAll(s, 1, TC, ETC)[k] :
                   k \in DOMAIN BraceFindAll(s, 1, TC, ETC)} : ~IsJSON(Strip(m))}
    [] conv = "glm" ->
         {m \in {BraceFindAll(s, 1, TR, ETR)[k] :
                   k \in DOMAIN BraceFindAll(s, 1, TR, ETR)} : ~IsJSON(Strip(m))}
    [] conv = "devstral" ->
         {m \in {Strip(DevstralFindAll(s, 1)[k].json_part) :
                   k \in DOMAIN DevstralFindAll(s, 1)} : ~IsJSON(m)}
    [] OTHER -> {}

\* C12: for the GLM [TOOL_REQUEST], Qwen3 and Devstral families, every tool
\* call of the text whose payload is not valid JSON is among the calls
\* parse returns, its arguments being the JSON string encoding of the
\* payload text.
C12_InvalidPayloadKept ==
  \A i \in CallsOf("parse") :
    \A payload \in InvalidPayloads(converter, results[i].arg) :
      \E k \in DOMAIN results[i].ret :
        results[i].ret[k].function.arguments = [kind |-> "string", text |-> payload]
\* the text is "[TOOL_CALLS]name[ARGS]" followed by a text without further
\* [TOOL_CALLS] that json.loads rejects
DevstralNotJSON(s) ==
  /\ Len(s) >= 2 /\ s[1] = TCS
  /\ IndexFrom(s, TCS, 2) = 0
  /\ IndexFrom(s, ARGS, 2) # 0
  /\ ~IsJSON(Strip(Slice(s, IndexFrom(s, ARGS, 2) + 1, Len(s))))

CompleteCalls(conv) ==
  CASE conv = "glm" ->
         {<<TC, TXT, AK, TXT, EAK, AV, TXT, EAV, ETC>>, <<TR, J, ETR>>}
    [] conv = "qwen3"       -> {<<TC, J, ETC>>}
    [] conv = "qwen3_coder" -> {<<TC, FN, PM, TXT, EPM, EFN, ETC>>}
    [] conv = "claude"      -> {<<IV, CP, TXT, EPM, EIV>>}
    [] conv = "devstral"    -> {<<TCS, TXT, ARGS, J>>, <<TCS, TXT, ARGS, TXT>>}
    [] OTHER                -> {}

\* C14: parse returns one tool call for a text that is one complete call,
\* and for a text that is one complete call followed by another, with or
\* without a blank between them, it returns two calls, the call of the
\* first one first; for GLM the two may be of either dialect.
C14_DocumentOrder ==
  \A i \in CallsOf("parse") :
    \A a \in CompleteCalls(converter), b \in CompleteCalls(converter) :
      LET one(t) == parse_tool_calls(converter, t)
          ret    == results[i].ret
      IN  /\ results[i].arg = a => Len(ret) = 1
          /\ results[i].arg \in {a \o b, a \o <<WS>> \o b} =>
               /\ Len(one(a)) = 1 /\ Len(one(b)) = 1
               /\ Len(ret) = 2
               /\ ret[1].function = one(a)[1].function
               /\ ret[2].function = one(b)[1].function
\* json.loads accepts the arguments value: what json.dumps wrote for a dict
\* or for a str always decodes, a text assigned as it is only if it is JSON
DecodesAsJSON(arguments) ==
  CASE arguments.kind = "object" -> TRUE
    [] arguments.kind = "string" -> TRUE
    [] OTHER                     -> IsJSON(arguments.text)

\* C15: every tool call a converter's parse returns has type "function"
\* and a function.arguments that is a string json.loads accepts.
C15_ArgumentsAreJSON ==
  \A i \in CallsOf("parse") :
    \A k \in DOMAIN results[i].ret :
      /\ results[i].ret[k].type = "function"
      /\ DecodesAsJSON(results[i].ret[k].function.arguments)

\* a parse has returned two calls, one with the arguments of a decoded
\* payload and one with the fallback for a payload that is not JSON
C15_Witness ==
  \E i \in CallsOf("parse") :
    /\ Len(results[i].ret) = 2
    /\ results[i].ret[1].function.arguments.kind = "object"
    /\ results[i].ret[2].function.arguments = [kind |-> "string", text |-> <<BJ>>]
\* C16: _clean_content is idempotent for every converter: given a text that
\* _clean_content has returned, it returns that text unchanged.
C16_CleanIdempotent ==
  \A i \in CallsOf("clean"), j \in CallsOf("clean") :
    results[j].arg = results[i].ret => results[j].ret = results[j].arg
\* C17: whatever the text and the flag, what _remove_empty_think_tags
\* returns holds no <think>, blanks only, </think> span.
C17_NoEmptySpanLeft ==
  \A i \in CallsOf("sanitize") : ~HasEmptyThink(results[i].ret)
\* the text has a <think> ... </think> span whose interior is not blank
HasThinkSpan(s) ==
  \E a \in 1..Len(s) : \E b \in (a + 1)..Len(s) :
    s[a] = TH /\ s[b] = ETH /\ \E k \in (a + 1)..(b - 1) : s[k] # WS

\* C18: with REMOVE_THINK_TAGS enabled, no content that convert_response
\* returns holds a <think>...</think> span with non-empty interior,
\* whichever converter is selected and whether or not the content had a
\* tool-call marker.
C18_ThinkSpansRemoved ==
  (Transformed /\ remove_think_tags) =>
    \A i \in StringChoices :
      "content" \in DOMAIN reply.body.choices[i].message =>
        ~HasThinkSpan(reply.body.choices[i].message.content)
\* t occurs in s as a run of consecutive tokens
OccursIn(t, s) ==
  \E p \in 0..(Len(s) - Len(t)) : \A k \in 1..Len(t) : s[p + k] = t[k]

\* the <think>...</think> spans of the text whose interior is not blank and
\* holds no further think tag, tags included
PlainThinkSpans(s) ==
  {t \in {Slice(s, a, b) : a \in 1..Len(s), b \in 1..Len(s)} :
     /\ Len(t) >= 3 /\ t[1] = TH /\ t[Len(t)] = ETH
     /\ \A k \in 2..(Len(t) - 1) : t[k] \notin {TH, ETH}
     /\ \E k \in 2..(Len(t) - 1) : t[k] # WS}

\* C19: with REMOVE_THINK_TAGS disabled, every <think>...</think> span with
\* non-empty interior of a text without tool-call marker is in what
\* _clean_content returns, opening tag, interior and closing tag, for every
\* converter.
C19_ThinkSpansKept ==
  \A i \in CallsOf("clean") :
    (~remove_think_tags /\ ~has_partial_tool_call(converter, results[i].arg)) =>
      \A span \in PlainThinkSpans(results[i].arg) : OccursIn(span, results[i].ret)
\* no </think> without a <think> before it, no <think> without a </think>
\* after it
NoOrphanThink(s) ==
  \A k \in 1..Len(s) :
    /\ s[k] = ETH => \E j \in 1..(k - 1) : s[j] = TH
    /\ s[k] = TH  => \E j \in (k + 1)..Len(s) : s[j] = ETH

\* C20: for every converter and either flag value, what _clean_content
\* returns has no orphaned think tag; and of a text that is an orphaned
\* <think> followed by plain text, it returns that text (trimmed), only
\* the tag being deleted.
C20_NoOrphanTags ==
  \A i \in CallsOf("clean") :
    /\ NoOrphanThink(results[i].ret)
    /\ LET s == results[i].arg
       IN  (Len(s) >= 2 /\ s[1] = TH /\ \A k \in 2..Len(s) : s[k] \in {TXT, WS})
             => results[i].ret = Strip(Tail(s))

\* ------------------------------------------------ claims on the factory
\* the positions of the list whose converter accepts the name
Matching(model_name) ==
  {i \in DOMAIN _converters : can_handle_model(_converters[i], model_name)}

\* C21: get_converter returns the first converter of the list, in list
\* order, whose can_handle_model accepts the name, letter case ignored, and
\* it probes no converter after that one; with the list as constructed, a
\* name that both the Qwen3-Coder and the Qwen3 converter accept gives the
\* Qwen3-Coder converter; it returns the pass-through converter when no
\* specific converter accepts the name and, probing none, when the name is
\* empty or absent.
C21_FirstMatchInOrder ==
  (call # None /\ call.op = "get_converter") =>
    /\ call.arg = <<>> => (call.ret = "passthrough" /\ call.probed = <<>>)
    /\ (call.arg # <<>> /\ Matching(call.arg) # {}) =>
         \E i \in Matching(call.arg) :
           /\ \A j \in Matching(call.arg) : i <= j
           /\ call.ret = _converters[i]
           /\ call.probed = Slice(_converters, 1, i)
    /\ (call.arg # <<>> /\ Matching(call.arg) \subseteq {i \in DOMAIN _converters :
                                                           _converters[i] = "passthrough"}) =>
         call.ret = "passthrough"
    /\ call.ret = GetConverter(_converters, Lower(call.arg))
    /\ (/\ _converters = RegisteredConverters
        /\ can_handle_model("qwen3_coder", call.arg)
        /\ can_handle_model("qwen3", call.arg)) => call.ret = "qwen3_coder"

\* "Qwen3-coder" was looked up in the list as constructed and gave the
\* Qwen3-Coder converter, the only one probed
C21_Witness ==
  /\ call # None /\ call.op = "get_converter"
  /\ _converters = RegisteredConverters
  /\ call.arg = <<"Qwen3", "-coder">>
  /\ call.ret = "qwen3_coder"
  /\ call.probed = <<"qwen3_coder">>

\* C22: after any sequence of register_converter calls, with or without a
\* priority, the pass-through converter is the last entry of the list; and
\* a converter just registered with the default priority is what
\* get_converter returns for every name it accepts that no earlier entry
\* accepts.
C22_PassThroughStaysLast ==
  /\ _converters[Len(_converters)] = "passthrough"
  /\ (call # None /\ call.op = "register_converter" /\ call.priority = None) =>
       /\ _converters[Len(_converters) - 1] = call.arg
       /\ \A model_name \in LookupNames :
            (/\ can_handle_model(call.arg, model_name)
             /\ \A j \in 1..(Len(_converters) - 2) :
                  ~can_handle_model(_converters[j], model_name))
              => GetConverter(_converters, model_name) = call.arg

\* C23: on the factory as constructed, for a model name the Devstral
\* pattern accepts (it contains "devstral", in any letter case),
\* get_converter returns the Devstral converter and get_streaming_handler
\* the Devstral streaming handler.
C23_DevstralSelected ==
  (/\ call # None
   /\ _converters = RegisteredConverters
   /\ call.op \in {"get_converter", "get_streaming_handler"}
   /\ can_handle_model("devstral", call.arg)) =>
    IF call.op = "get_converter" THEN call.ret = "devstral"
    ELSE call.ret = [class |-> "DevstralStreamingHandler", converter |-> "devstral"]

\* ------------------------------------------------------------ C24
\* the handler object request r works on, NoHandler before its first chunk
HandlerOf(r) ==
  IF streams[r].handler = 0 THEN NoHandler ELSE objects[streams[r].handler]

\* C24: with two streaming requests in flight and their lines processed in
\* any interleaving, each request has yielded exactly what its generator
\* yields on its own lines by itself, its handler holds the buffer and flags
\* of that solitary run, and the two requests never hold the same handler.
C24_RequestsIsolated ==
  pc = "pair" =>
    /\ \A r \in {1, 2} :
         LET alone == Generate(streams[r].lines, remove_think_tags)
         IN  /\ streams[r].out = alone.out
             /\ HandlerOf(r) = alone.h
    /\ streams[1].handler # 0 => streams[1].handler # streams[2].handler

\* request 2 read the first half of a tool call and is still buffering;
\* after that request 1 of the same model got its handler, read both halves
\* and yielded its tool-call frame
C24_Witness ==
  /\ pc = "pair"
  /\ streams[1].model = streams[2].model
  /\ streams[2].handler = 1 /\ streams[1].handler = 2
  /\ HandlerOf(2).tool_call_detected /\ ~HandlerOf(2).tool_call_complete
  /\ streams[2].out = <<>>
  /\ Len(streams[1].lines) = 2
  /\ \E k \in DOMAIN streams[1].out : IsToolFrame(streams[1].out[k])

\* ------------------------------------------------------------ C25
\* C25: malformed wire input is passed through unchanged: a data line whose
\* payload is not JSON is yielded verbatim, by itself, and leaves the
\* handler as it was; a non-streaming body that is not JSON is answered with
\* the raw body and the status of the backend, never with an error of the
\* proxy.
C25_MalformedPassedThrough ==
  /\ \A i \in DOMAIN trace :
       (trace[i].line.t = "data" /\ "text" \in DOMAIN trace[i].line) =>
         /\ trace[i].res = <<[t |-> "raw", text |-> trace[i].line.text]>>
         /\ Post(i) = trace[i].pre
  /\ (pc = "replied" /\ IsNotJSON(upstream)) =>
       reply = [status |-> upstream.status_code, body |-> upstream.content]

\* a non-JSON data line arrived while a tool call was being buffered
C25_Witness ==
  \E i \in DOMAIN trace :
    /\ trace[i].line.t = "data" /\ "text" \in DOMAIN trace[i].line
    /\ trace[i].pre.tool_call_detected /\ ~trace[i].pre.tool_call_complete
    /\ trace[i].pre.buffer # <<>>

\* ------------------------------------------------------------ C26
\* the conversion of choice u as the only choice of the document
ConvertedAlone(u) ==
  convert_response(SelectedConverter, remove_think_tags,
                   [upstream EXCEPT !.choices = <<u>>]).doc.choices[1]

\* C26: convert_response changes nothing in the document except, within a
\* choice, message.content, message.tool_calls and that choice's
\* finish_reason: every other field of the document, of a choice and of a
\* message is as the backend sent it, a choice without message or without
\* message.content is returned as it was, and each choice comes out as it
\* does when it is the only choice of the document.
C26_FrameEffect ==
  Transformed =>
    /\ DOMAIN reply.body = DOMAIN upstream
    /\ \A k \in DOMAIN upstream \ {"choices"} : reply.body[k] = upstream[k]
    /\ DOMAIN reply.body.choices = DOMAIN upstream.choices
    /\ \A i \in DOMAIN upstream.choices :
         LET u == upstream.choices[i]
             v == reply.body.choices[i]
         IN  /\ \A k \in (DOMAIN u \cup DOMAIN v) \ {"message", "finish_reason"} :
                  SameField(u, v, k)
             /\ ("message" \in DOMAIN u) = ("message" \in DOMAIN v)
             /\ "message" \in DOMAIN u =>
                  \A k \in (DOMAIN u.message \cup DOMAIN v.message)
                             \ {"content", "tool_calls"} :
                    SameField(u.message, v.message, k)
             /\ ("message" \notin DOMAIN u \/ "content" \notin DOMAIN u.message) =>
                  v = u
             /\ v = ConvertedAlone(u)

\* a document of two choices: the first got tool_calls in place of its
\* markup, the second had an empty think span removed
C26_Witness ==
  /\ Transformed
  /\ Len(upstream.choices) = 2
  /\ "message" \in DOMAIN upstream.choices[1]
  /\ "tool_calls" \notin DOMAIN upstream.choices[1].message
  /\ "tool_calls" \in DOMAIN reply.body.choices[1].message
  /\ "tool_calls" \notin DOMAIN reply.body.choices[2].message
  /\ reply.body.choices[2] # upstream.choices[2]

\* ------------------------------------------------------------ C27
\* "I'll check." and a line break, then one complete <tool_call> block with
\* a function name and one arg_key/arg_value pair
GLMExample == <<TXT, WS, TC, TXT, AK, TXT, EAK, AV, TXT, EAV, ETC>>

\* the GLM response whose only choice carries the example message was
\* converted
GLMExampleReplied ==
  /\ pc = "replied"
  /\ SelectedConverter = "glm"
  /\ "choices" \in DOMAIN upstream
  /\ Len(upstream.choices) = 1
  /\ upstream.choices[1] = Choice([role |-> "assistant", content |-> GLMExample], "stop")

\* C27 as stated: the example message is converted to a message without
\* content field, with one tool call and finish_reason "tool_calls".
C27_ContentOmitted ==
  GLMExampleReplied =>
    /\ reply.status = 200
    /\ "content" \notin DOMAIN reply.body.choices[1].message
    /\ Len(reply.body.choices[1].message.tool_calls) = 1
    /\ reply.body.choices[1].finish_reason = "tool_calls"

\* C27 amended: the example message is converted to a message whose content
\* is the text before the block, trimmed ("I'll check."), with one tool call
\* of the block's function name and argument, and finish_reason "tool_calls".
C27_ContentKept ==
  GLMExampleReplied =>
    /\ reply.status = 200
    /\ reply.body.choices[1].message.content = <<TXT>>
    /\ Len(reply.body.choices[1].message.tool_calls) = 1
    /\ reply.body.choices[1].message.tool_calls[1].function =
         [name |-> <<TXT>>,
          arguments |-> [kind |-> "object",
                         items |-> <<[key |-> <<TXT>>, val |-> <<TXT>>,
                                      str |-> TRUE]>>]]
    /\ reply.body.choices[1].finish_reason = "tool_calls"

C27_Witness == GLMExampleReplied /\ reply.status = 200

\* ------------------------------------------------------------ C28
\* one legacy <tool_call> block: a function name and one arg_key/arg_value
LegacyBlock == <<TC, TXT, AK, TXT, EAK, AV, TXT, EAV, ETC>>

\* texts made of legacy blocks, text and blanks only, with a block in them
LegacyTexts ==
  {s \in TextsUpTo("glm", MaxBlocks) :
     /\ Contains(s, TC)
     /\ \A p \in DOMAIN s :
          \/ s[p] \in {TXT, WS}
          \/ \E q \in 1..p : /\ q + Len(LegacyBlock) - 1 >= p
                             /\ q + Len(LegacyBlock) - 1 <= Len(s)
                             /\ SubSeq(s, q, q + Len(LegacyBlock) - 1) = LegacyBlock}

\* C28: the legacy ToolCallConverter created without a model name extracts
\* GLM tool calls: parse_glm_tool_calls on a text holding n legacy blocks
\* returns n tool calls, each with the function name and the arguments of
\* its block.
C28_LegacyWrapperParses ==
  (pc = "legacy" /\ model = None) =>
    \A i \in DOMAIN results :
      results[i].arg \in LegacyTexts =>
        /\ Len(results[i].ret) =
             Cardinality({p \in DOMAIN results[i].arg : results[i].arg[p] = TC})
        /\ \A k \in DOMAIN results[i].ret :
             results[i].ret[k].function =
               [name |-> <<TXT>>,
                arguments |-> [kind |-> "object",
                               items |-> <<[key |-> <<TXT>>, val |-> <<TXT>>,
                                            str |-> TRUE]>>]]

\* ------------------------------------------------------------ C29
\* the text delivered to the client by the first n yields: the delta.content
\* values of the yielded frames, concatenated
RECURSIVE DeliveredText(_)
DeliveredText(n) ==
  IF n = 0 THEN <<>>
  ELSE DeliveredText(n - 1) \o
       (IF IsContentFrame(out[n]) THEN out[n].chunk.choices[1].delta.content
        ELSE <<>>)

\* C29: in streaming mode the text delivered to the client, the
\* concatenation of the delta.content values of the frames sent, contains
\* no empty think span (<think>, blanks only, </think>).
C29_StreamNoEmptyThink == ~HasEmptyThink(DeliveredText(Len(out)))

\* ------------------------------------------------------------ C30
\* the chunk objects of the data lines read, in order
ChunksRead == SelectSeq([i \in DOMAIN trace |-> trace[i].line], IsChunkLine)

\* the chunk objects yielded as data frames, in order
ChunksYielded == SelectSeq(out, LAMBDA ev : ev.t = "data")

\* C30: for an OpenAI-family model the converter and its streaming handler
\* are a pure passthrough: the response document is returned as it came,
\* whatever its content; every chunk read is yielded as it came, by itself
\* and in order; and at [DONE] finalize adds no frame.
C30_OpenAIPassthrough ==
  /\ (pc = "replied" /\ ~IsNotJSON(upstream) /\ SelectedConverter = "openai") =>
       reply = [status |-> 200, body |-> upstream]
  /\ (pc \in {"open", "done", "eof"} /\ get_converter(model) = "openai") =>
       /\ \A i \in DOMAIN trace :
            /\ IsChunkLine(trace[i].line) =>
                 trace[i].res = <<[t |-> "data", chunk |-> trace[i].line.chunk]>>
            /\ trace[i].line.t = "done" => trace[i].res = <<[t |-> "done"]>>
       /\ Len(ChunksYielded) = Len(ChunksRead)
       /\ \A k \in DOMAIN ChunksRead : ChunksYielded[k].chunk = ChunksRead[k].chunk

\* an OpenAI stream in which a chunk with tool-call markup and a chunk with
\* an empty think span were read before [DONE]
C30_Witness ==
  /\ pc = "done"
  /\ get_converter(model) = "openai"
  /\ \E i \in DOMAIN trace :
       ContentLine(trace[i].line) /\ Contains(DeltaContent(trace[i].line), TC)
  /\ \E i \in DOMAIN trace :
       ContentLine(trace[i].line) /\ HasEmptyThink(DeltaContent(trace[i].line))

\* ------------------------------------------------------------ C31
\* C31: when the Devstral handler reads "[TOOL_CALLS]name[ARGS]" in one
\* delta and the JSON payload in the next, the delta that ends with [ARGS]
\* produces no tool-call frame, and the delta that brings the payload
\* produces the tool-call frame, its arguments being the encoding of the
\* payload.
C31_DevstralWaitsForPayload ==
  pc \in {"handler", "finalized"} =>
    \A i \in DOMAIN trace :
      (/\ ContentLine(trace[i].line)
       /\ DeltaContent(trace[i].line) = <<TCS, TXT, ARGS>>
       /\ ~trace[i].pre.tool_call_detected) =>
        /\ \A k \in DOMAIN trace[i].res : ~IsToolFrame(trace[i].res[k])
        /\ (/\ i < Len(trace)
            /\ ContentLine(trace[i + 1].line)
            /\ DeltaContent(trace[i + 1].line) = <<J>>) =>
             \E k \in DOMAIN trace[i + 1].res :
               /\ IsToolFrame(trace[i + 1].res[k])
               /\ trace[i + 1].res[k].chunk.choices[1].delta.tool_calls[1]
                    .function.arguments = DevstralArguments(<<J>>)

\* ------------------------------------------------------------ C32
\* line i is the first line of the stream that carries content
FirstContentLine(i) ==
  /\ ContentLine(trace[i].line)
  /\ \A j \in 1..(i - 1) : ~ContentLine(trace[j].line)

\* C32: the handler of a stream is created when its first content-bearing
\* frame arrives, for the converter selected by that frame's model name,
\* and is never rebound: there is none before that frame, whatever frames
\* without content came earlier, and the one created then stays.
C32_BoundAtFirstContent ==
  pc \in {"open", "done"} =>
    \A i \in DOMAIN trace :
      /\ (\A j \in 1..i : ~ContentLine(trace[j].line)) => Post(i).conv = "none"
      /\ FirstContentLine(i) =>
           Post(i).conv = get_converter(Get(trace[i].line.chunk, "model", <<>>))
      /\ trace[i].pre.conv # "none" => Post(i).conv = trace[i].pre.conv

\* ---------------------------------------------------------------- C33
\* C33: the configuration defines both upstream timeouts, REQUEST_TIMEOUT
\* (300 unless the environment or the production profile sets it) and
\* STREAMING_TIMEOUT; forward_request sends the request to the backend with
\* STREAMING_TIMEOUT when it is a streaming request and with REQUEST_TIMEOUT
\* otherwise, so a streaming request is not answered with a failure
C33_TimeoutsChosen ==
  "sent" \in DOMAIN call =>
    /\ call.sent
    /\ hasattr(config, IF call.stream THEN "STREAMING_TIMEOUT" ELSE "REQUEST_TIMEOUT")
    /\ call.timeout = <<config[IF call.stream THEN "STREAMING_TIMEOUT"
                                ELSE "REQUEST_TIMEOUT"]>>
    /\ call.stream => pc = "open" /\ reply # ProxyFailed

\* ---------------------------------------------------------------- C34
\* what lines 1..n yielded, in the order of the lines
RECURSIVE YieldedBy(_)
YieldedBy(n) == IF n = 0 THEN <<>> ELSE YieldedBy(n - 1) \o trace[n].res

\* C34: in the converting relay the output is what the input lines yielded,
\* line after line in input order, and a line forwarded untouched yields
\* itself; the [DONE] sentinel is written at most once and nothing is written
\* after it; the [DONE] line yields the frame finalize returned, when it
\* returned one, and then the sentinel, with nothing between; no line is
\* read or forwarded after the [DONE] line
C34_OrderedAndTerminated ==
  pc \in {"open", "done", "eof"} =>
    /\ out = YieldedBy(Len(trace))
    /\ \A k \in DOMAIN out : out[k].t = "done" => k = Len(out) /\ pc = "done"
    /\ pc = "done" => out # <<>> /\ out[Len(out)].t = "done"
    /\ \A i \in DOMAIN trace :
         LET line == trace[i].line
             res  == trace[i].res
         IN  /\ line.t \in {"blank", "other"} \/ (line.t = "data" /\ ~IsChunkLine(line))
                  => res = <<Forwarded(line)>>
             /\ line.t # "done" => \A k \in DOMAIN res : res[k].t # "done"
             /\ line.t = "done" =>
                  /\ i = Len(trace)
                  /\ res = (IF trace[i].pre.conv # "none" /\ finalize(trace[i].pre) # None
                            THEN <<[t |-> "data", chunk |-> finalize(trace[i].pre)]>>
                            ELSE <<>>) \o <<[t |-> "done"]>>

\* a stream ended: a line forwarded untouched, a content frame, a delta that
\* was held back, then the finalization frame and the sentinel
C34_Witness ==
  /\ pc = "done"
  /\ Len(trace) = 4
  /\ trace[1].line.t = "other"
  /\ ContentLine(trace[2].line)
  /\ ContentLine(trace[3].line) /\ trace[3].res = <<>>
  /\ Len(out) = 4
  /\ out[1] = Forwarded(trace[1].line)
  /\ IsContentFrame(out[2])
  /\ IsStopFrame(out[3])
  /\ out[4].t = "done"

\* ---------------------------------------------------------------- C35
\* a frame whose first choice has a finish_reason that is not null
HasFinish(ev) == IsFrame(ev) /\ ev.chunk.choices[1].finish_reason # "null"

FinishRead == Cardinality({i \in DOMAIN trace : HasFinish(trace[i].line)})

FinishWritten == Cardinality({k \in DOMAIN out : HasFinish(out[k])})

\* C35: when the backend stream held at most one frame with a non-null
\* finish_reason, the client is delivered at most one frame with a non-null
\* finish_reason, whatever the handler's state, a stream that ends with a
\* marker detected and never completed included
C35_OneFinishFrame ==
  pc \in {"open", "done", "eof"} /\ FinishRead <= 1 => FinishWritten <= 1

\* ---------------------------------------------------------------- C36
\* the number of text characters (tokens outside every marker) of a string
TextCount(s) == Cardinality({k \in DOMAIN s : s[k] = TXT})

\* the text of the deltas up to line i that no frame has delivered yet: the
\* delta of line i and of the lines directly before it that yielded nothing
RECURSIVE Undelivered(_)
Undelivered(i) ==
  (IF i > 1 /\ ContentLine(trace[i - 1].line) /\ trace[i - 1].res = <<>>
   THEN Undelivered(i - 1) ELSE <<>>)
    \o (IF ContentLine(trace[i].line) THEN DeltaContent(trace[i].line) ELSE <<>>)

\* the content of a frame as text, null being no text
FrameText(ev) ==
  IF ev.chunk.choices[1].delta.content = Null THEN <<>>
  ELSE ev.chunk.choices[1].delta.content

\* C36: no part of the model's text is delivered twice: the content of an
\* emitted tool-call frame carries no more text than the deltas not yet
\* delivered hold outside their markup, so text forwarded in content deltas
\* before the marker was detected is not in it again
C36_NoTextTwice ==
  pc \in {"open", "done", "eof"} =>
    \A i \in DOMAIN trace :
      \A k \in DOMAIN trace[i].res :
        IsToolFrame(trace[i].res[k]) =>
          TextCount(FrameText(trace[i].res[k])) <=
            TextCount(_clean_content(Post(i).conv, FALSE, Undelivered(i)))

\* ---------------------------------------------------------------- C37
\* the marker is split between line i and line i + 1
SplitAt(i) ==
  /\ i + 1 \in DOMAIN trace
  /\ ContentLine(trace[i].line) /\ ContentLine(trace[i + 1].line)
  /\ DeltaContent(trace[i].line)[Len(DeltaContent(trace[i].line))] = TCa
  /\ DeltaContent(trace[i + 1].line)[1] = TCb

\* a yielded frame whose content holds one of the halves of the marker
CarriesFragment(ev) ==
  /\ IsFrame(ev)
  /\ "content" \in DOMAIN ev.chunk.choices[1].delta
  /\ ContainsAny(ev.chunk.choices[1].delta.content, {TCa, TCb})

\* C37: when a marker is split across two consecutive deltas, no frame
\* delivered for either delta carries a fragment of the marker as content,
\* the marker is detected once its second half has arrived, and when the
\* buffer then holds a complete call the tool-call frame is emitted
C37_SplitMarker ==
  pc \in {"open", "done"} =>
    \A i \in DOMAIN trace :
      SplitAt(i) =>
        /\ \A j \in {i, i + 1} : \A k \in DOMAIN trace[j].res :
             ~CarriesFragment(trace[j].res[k])
        /\ Post(i + 1).tool_call_detected
        /\ is_complete_tool_call(Post(i + 1).conv, Post(i + 1).buffer)
             => /\ Len(trace[i + 1].res) = 1
                /\ IsToolFrame(trace[i + 1].res[1])

\* ---------------------------------------------------------------- C38
\* the content string of a yielded frame, empty when it has none or null
ContentOf(ev) ==
  IF IsFrame(ev) /\ "content" \in DOMAIN ev.chunk.choices[1].delta
     /\ ev.chunk.choices[1].delta.content # Null
  THEN ev.chunk.choices[1].delta.content
  ELSE <<>>

\* C38: once the handler has detected a marker, no frame it hands to the
\* client has a delta.content in which marker text of its converter occurs,
\* also when the buffer holds a complete marker pair from which parse
\* extracts no call
C38_NoMarkerForwarded ==
  pc \in {"open", "done", "eof"} =>
    \A i \in DOMAIN trace :
      Post(i).conv \notin {"none", "openai", "passthrough"} /\ Post(i).tool_call_detected =>
        \A k \in DOMAIN trace[i].res :
          ~has_partial_tool_call(Post(i).conv, ContentOf(trace[i].res[k]))

\* ---------------------------------------------------------------- C39
\* choice i of the backend's document has a message whose content is null
NullContentChoice(i) ==
  /\ "message" \in DOMAIN upstream.choices[i]
  /\ "content" \in DOMAIN upstream.choices[i].message
  /\ upstream.choices[i].message.content = Null

\* C39: a response with a choice whose message.content is null is converted
\* without an exception by the converter of every model: the request is
\* answered with status 200 and that choice is in the reply as it came
C39_NullContentTolerated ==
  pc = "replied" /\ ~IsNotJSON(upstream) /\ "choices" \in DOMAIN upstream =>
    \A i \in DOMAIN upstream.choices :
      NullContentChoice(i) =>
        /\ convert_response(get_converter(detect_model_from_response(upstream)),
                            remove_think_tags, upstream).ok
        /\ reply.status = 200
        /\ reply.body.choices[i] = upstream.choices[i]

\* ---------------------------------------------------------------- C40
\* the non-empty delta.content values of choices[0] of the chunks among
\* lines 1..n, joined in arrival order
RECURSIVE ContentsRead(_)
ContentsRead(n) ==
  IF n = 0 THEN <<>>
  ELSE Concat(ContentsRead(n - 1),
              IF ContentLine(trace[n].line) THEN DeltaContent(trace[n].line) ELSE <<>>)

\* the three fields of a handler the claim is about
Fields(h) == <<h.buffer, h.tool_call_detected, h.tool_call_complete>>

\* C40: in every state of a base streaming handler tool_call_complete
\* implies tool_call_detected, no flag goes from true back to false, and the
\* buffer is the concatenation, in arrival order, of every non-empty
\* delta.content of choices[0] processed so far; a frame without choices and
\* finalize leave buffer and flags as they were
C40_HandlerInvariants ==
  pc \in {"open", "done", "eof"} =>
    \A i \in DOMAIN trace :
      LET pre  == trace[i].pre
          post == Post(i)
          line == trace[i].line
      IN  /\ post.tool_call_complete => post.tool_call_detected
          /\ pre.tool_call_detected => post.tool_call_detected
          /\ pre.tool_call_complete => post.tool_call_complete
          /\ post.conv # "openai" => post.buffer = ContentsRead(i)
          /\ (line.t = "done" \/ (IsChunkLine(line) /\ Get(line.chunk, "choices", <<>>) = <<>>))
               => Fields(post) = Fields(pre)

\* a handler that completed a call over two deltas, then read a frame
\* without choices, and was finalized
C40_Witness ==
  /\ pc = "done"
  /\ Len(trace) = 4
  /\ handler.conv \notin {"none", "openai", "passthrough"}
  /\ ContentLine(trace[1].line) /\ ContentLine(trace[2].line)
  /\ ~trace[2].pre.tool_call_complete /\ trace[2].pre.tool_call_detected
  /\ trace[3].pre.tool_call_complete
  /\ IsChunkLine(trace[3].line) /\ Get(trace[3].line.chunk, "choices", <<>>) = <<>>
  /\ handler.buffer = DeltaContent(trace[1].line) \o DeltaContent(trace[2].line)

====
